---- MODULE Spec2Model ----
(***************************************************************************)
(* Model of the language server's file-session layer (server.ts): the      *)
(* per-document records, the dependency registry, include-path resolution, *)
(* the recursive parse of dependency files, the debounced reparse timers   *)
(* and the traversals built on the dependency lists.                       *)
(*                                                                         *)
(* A file is identified by its path <<directory, name>>.  A text is        *)
(* modelled by what the scanner extracts from it: its inclusion            *)
(* directives and its declared identifiers.                                *)
(***************************************************************************)
EXTENDS Integers, Sequences, FiniteSets, TLC

\* ---------------------------------------------------------------- bounds
\* most setTimeout callbacks that may be pending for one URI
MaxPending == 2
\* the reference counts followed: from -MaxDeficit to MaxCount
MaxCount == 3
MaxDeficit == 1
\* recursion budget of one traversal; never reached by the code as written
FuelLimit == 8

\* calls of the comment handling followed for one line
CommentFuel == 6

\* ---------------------------------------------------------------- universe
\* "undefined" for a path / a node
None == <<>>

\* "undefined" for a directory
NoDir == ""

\* directory of the open documents, and the include directories
WorkDir == "w"
IncDir == "inc"

\* the documents the editor may open
Docs == {<<WorkDir, "a.sma">>, <<WorkDir, "b.sma">>}

\* the documents the editor changes while they are open; the others are
\* opened and closed with the text they have
Editable == {<<WorkDir, "a.sma">>}

RangeOf(s) == {s[i] : i \in 1..Len(s)}

InSeq(e, s) == \E i \in 1..Len(s) : s[i] = e

SeqsUpTo(S, n) == UNION {[1..k -> S] : k \in 0..n}

\* ---------------------------------------------------------------- file system
\* What the scanner extracts from a text: the inclusion directives in line
\* order (file name, terminator character, tolerant form) and the declared
\* callables and values (identifier, declared static or not).
Directive(f, t, s) == [filename |-> f, termCharacter |-> t, isSilent |-> s]

Decl(id, st) == [identifier |-> id, isStatic |-> st]

Text(ds, cs, vs) == [directives |-> ds, callables |-> cs, values |-> vs]

File(t) == [kind |-> "file", text |-> t]

Folder == [kind |-> "dir", text |-> Text(<<>>, <<>>, <<>>)]

Absent == [kind |-> "none", text |-> Text(<<>>, <<>>, <<>>)]

\* the paths that may exist on disk
DiskPaths ==
  { <<IncDir, "x.inc">>, <<IncDir, "y.inc">>, <<IncDir, "y">>, <<WorkDir, "y.inc">> }

XDecls == <<Decl("f", FALSE), Decl("s", TRUE)>>

YDecls == <<Decl("h", FALSE)>>

Disk(x, y, ydir, wy) ==
  [p \in DiskPaths |->
     CASE p = <<IncDir, "x.inc">> -> File(Text(x, XDecls, <<Decl("vx", FALSE)>>))
       [] p = <<IncDir, "y.inc">> -> File(Text(y, YDecls, <<>>))
       [] p = <<IncDir, "y">> -> IF ydir THEN Folder ELSE Absent
       [] p = <<WorkDir, "y.inc">> -> IF wy THEN File(Text(<<>>, YDecls, <<>>)) ELSE Absent]

\* the disks a run may start from: mutual inclusion, a chain with a quoted
\* inclusion and a same-named file beside the documents, a repeated and a
\* self inclusion, and an include name that resolves to a directory
DiskChoices ==
  { Disk(<<Directive("y", ">", FALSE)>>, <<Directive("x", ">", FALSE)>>, FALSE, FALSE),
    Disk(<<Directive("y", "\"", FALSE)>>, <<>>, FALSE, TRUE),
    Disk(<<Directive("y", ">", FALSE), Directive("y", ">", FALSE)>>,
         <<Directive("y", ">", FALSE), Directive("x", ">", TRUE)>>, FALSE, FALSE),
    Disk(<<Directive("y", ">", FALSE)>>, <<>>, TRUE, FALSE) }

\* the texts an edited document may hold: no inclusion, one inclusion, the
\* same inclusion twice, a quoted inclusion, and two inclusions
DocTexts ==
  { Text(<<>>, <<Decl("g", FALSE)>>, <<>>),
    Text(<<Directive("x", ">", FALSE)>>, <<Decl("f", FALSE)>>, <<>>),
    Text(<<Directive("x", ">", FALSE), Directive("x", ">", FALSE)>>,
         <<Decl("g", TRUE)>>, <<Decl("v", FALSE)>>),
    Text(<<Directive("y", "\"", FALSE)>>, <<Decl("f", FALSE), Decl("g", FALSE)>>, <<>>),
    Text(<<Directive("x", ">", FALSE), Directive("y", "\"", FALSE)>>,
         <<>>, <<Decl("v", FALSE)>>) }

\* the include-path lists a configuration change may install
PathChoices == { <<IncDir>> }

VARIABLES
  fs,              \* the disk: path -> [kind, text]
  includePaths,    \* syncedSettings.compiler.includePaths
  openDocs,        \* documentsManager.all(): the open URIs, in opening order
  docText,         \* open URI -> document.getText()
  documentsData,   \* open URI -> DocumentData of its TextDocument object
  registry,        \* dependencyManager: node URI -> reference count
  dependenciesData,\* node URI -> cached DocumentData
  timers,          \* URI -> pending setTimeout callbacks: those given the
                   \* TextDocument object now open (live), and those given
                   \* an object closed since (stale)
  last,            \* the handler that ran last, and what it did
  query            \* a call of the include-path resolution on inputs of
                   \* its own, and its result

vars == <<fs, includePaths, openDocs, docText, documentsData,
          registry, dependenciesData, timers, last, query>>

\* ---------------------------------------------------------------- paths
\* Path.join(includePath, filename)
Join(dir, filename) == <<dir, filename>>

\* Path.dirname(URI.parse(uri).fsPath)
Dirname(uri) == uri[1]

\* FS.accessSync(path, R_OK) returns: the path exists (a file or a directory)
Access(disk, path) == path \in DOMAIN disk /\ disk[path].kind # "none"

\* FS.readFileSync(path) returns: the path is a regular file
Readable(disk, path) == path \in DOMAIN disk /\ disk[path].kind = "file"

\* a variant: localTo is pushed behind the configured directories
LocalLast(paths, localTo) ==
  IF localTo # NoDir THEN paths \o <<localTo>> ELSE paths

\* the directories tried, in order: localTo first when it is given
SearchPaths(paths, localTo) ==
  IF localTo # NoDir THEN <<localTo>> \o paths ELSE paths

RECURSIVE TryPaths(_, _, _, _)
\* the for loop of resolveIncludePath from its i-th directory on
TryPaths(disk, dirs, i, filename) ==
  IF i > Len(dirs) THEN None
  ELSE IF Access(disk, Join(dirs[i], filename)) THEN Join(dirs[i], filename)
  ELSE IF Access(disk, Join(dirs[i], filename \o ".inc")) THEN Join(dirs[i], filename \o ".inc")
  ELSE TryPaths(disk, dirs, i + 1, filename)

ResolveIncludePath(disk, paths, filename, localTo) ==
  TryPaths(disk, SearchPaths(paths, localTo), 1, filename)

\* ---------------------------------------------------------------- scanner
\* the descriptor pushed for a well-terminated directive
HeaderInclusion(d, line) ==
  [filename |-> d.filename, isLocal |-> d.termCharacter # ">",
   isSilent |-> d.isSilent, line |-> line]

\* the directory the caller hands to resolveIncludePath for a descriptor
LocalTo(header, uri) == IF header.isLocal THEN Dirname(uri) ELSE NoDir

Symbol(fileUri, d, line) == [identifier |-> d.identifier, file |-> fileUri, line |-> line]

RECURSIVE Declared(_, _, _, _)
\* the descriptors of the declarations from the i-th on, static ones left
\* out when skipStatic is set
Declared(fileUri, decls, i, skipStatic) ==
  IF i > Len(decls) THEN <<>>
  ELSE (IF skipStatic /\ decls[i].isStatic THEN <<>> ELSE <<Symbol(fileUri, decls[i], i)>>)
       \o Declared(fileUri, decls, i + 1, skipStatic)

\* Parser.parse(fileUri, content, skipStatic)
Parse(fileUri, content, skipStatic) ==
  [headerInclusions |-> [i \in 1..Len(content.directives) |-> HeaderInclusion(content.directives[i], i)],
   callables |-> Declared(fileUri, content.callables, 1, skipStatic),
   values |-> Declared(fileUri, content.values, 1, skipStatic)]

\* new Types.DocumentData(uri)
DocumentData(uri) ==
  [uri |-> uri, reparseTimer |-> "null", resolvedInclusions |-> <<>>,
   callables |-> <<>>, values |-> <<>>, dependencies |-> <<>>]

\* ---------------------------------------------------------------- dependency graph
\* dependencyManager.getDependency(uri): the node, or undefined
GetDependency(reg, uri) == IF uri \in DOMAIN reg THEN uri ELSE None

\* dependencyManager.addReference(uri): a new node with count 1, or one more
\* reference to the existing node
AddReference(reg, uri) ==
  IF uri \in DOMAIN reg THEN [reg EXCEPT ![uri] = @ + 1] ELSE reg @@ (uri :> 1)

RECURSIVE RemoveDependencies(_, _, _)
\* Helpers.removeDependencies(deps, ...): one reference less for each entry
\* of the list; a node that reaches zero stays registered until the sweep
RemoveDependencies(deps, i, reg) ==
  IF i > Len(deps) THEN reg
  ELSE RemoveDependencies(deps, i + 1,
         IF deps[i] \in DOMAIN reg THEN [reg EXCEPT ![deps[i]] = @ - 1] ELSE reg)

\* the dependency list of a node's cached data (none: nothing to follow)
DepsOf(dd, n) == IF n \in DOMAIN dd THEN dd[n].dependencies ELSE <<>>

RECURSIVE Walk(_, _, _, _, _)
\* depth-first walk over dependency lists with a visited set: the nodes
\* reached, the nodes expanded in order, and whether the budget sufficed
Walk(stack, visited, trace, dd, fuel) ==
  IF stack = <<>> THEN [visited |-> visited, trace |-> trace, done |-> TRUE]
  ELSE IF fuel = 0 THEN [visited |-> visited, trace |-> trace, done |-> FALSE]
  ELSE LET n == Head(stack)
       IN IF n \in visited THEN Walk(Tail(stack), visited, trace, dd, fuel)
          ELSE Walk(DepsOf(dd, n) \o Tail(stack), visited \cup {n}, Append(trace, n), dd, fuel - 1)

RECURSIVE Flatten(_, _)
Flatten(lists, i) == IF i > Len(lists) THEN <<>> ELSE lists[i] \o Flatten(lists, i + 1)

\* the walk of Helpers.removeUnreachableDependencies from the roots' lists
SweepWalk(roots, dd) ==
  Walk(Flatten([i \in 1..Len(roots) |-> roots[i].dependencies], 1), {}, <<>>, dd, FuelLimit)

Restrict(f, S) == [k \in (DOMAIN f) \cap S |-> f[k]]

\* Helpers.removeUnreachableDependencies(roots, ...): every registered node
\* that the walk did not reach goes, with its cached data
RemoveUnreachableDependencies(roots, reg, dd) ==
  LET w == SweepWalk(roots, dd)
  IN [reg |-> Restrict(reg, w.visited), dd |-> Restrict(dd, w.visited),
      trace |-> w.trace, done |-> w.done]

\* ---------------------------------------------------------------- parseFile
\* The state one pass threads through its calls:
\*   reg, dd      the registry and the cached data of the nodes
\*   diagnostics  the pass's map URI -> diagnostics
\*   thrown       an exception is propagating
\*   scanned      the files scanned by the pass, in order
\*   fuel, done   the recursion budget, and whether it sufficed
Pass(reg, dd) ==
  [reg |-> reg, dd |-> dd, diagnostics |-> <<>>, thrown |-> FALSE,
   scanned |-> <<>>, fuel |-> FuelLimit, done |-> TRUE]

Stopped(st) == st.thrown \/ ~st.done

\* the directive resolves to the file being parsed: it is skipped
IsSelfInclusion(resolvedUri, data) == resolvedUri = data.uri

\* whether the directive takes a reference: the node is not registered yet,
\* or the record did not list it before this pass
NeedsReference(reg, data, resolvedUri) ==
  \/ GetDependency(reg, resolvedUri) = None
  \/ ~InSeq(resolvedUri, data.dependencies)

\* a variant: a dependency is parsed each time a directive names it
AlwaysParse(dd, dependency) == TRUE

\* a variant: a dependency's file is never read
NeverParse(dd, dependency) == FALSE

\* the dependency file has no data yet
NeedsParse(dd, dependency) == dependency \notin DOMAIN dd

\* the previous dependencies that the new list does not hold
Dropped(old, new) == SelectSeq(old, LAMBDA dep : ~InSeq(dep, new))

UnresolvedDiagnostic(header) ==
  [message |-> "unresolved", line |-> header.line,
   severity |-> IF header.isSilent THEN "Information" ELSE "Error"]

\* myDiagnostics.push(d) for the file uri
PushDiagnostic(diags, uri, d) ==
  LET i == CHOOSE k \in 1..Len(diags) : diags[k].uri = uri
  IN [diags EXCEPT ![i].list = Append(@, d)]

RECURSIVE ParseFile(_, _, _, _, _, _)
RECURSIVE ForEachHeader(_, _, _, _, _, _)
RECURSIVE ParseDependency(_, _, _)

\* the body run when a dependency has no data: the data is created and
\* registered, the file is read (which throws when it cannot be read) and
\* parsed as a dependency
ParseDependency(dependency, paths, st) ==
  LET dd0 == st.dd @@ (dependency :> DocumentData(dependency))
  IN IF ~Readable(fs, dependency) THEN [st EXCEPT !.dd = dd0, !.thrown = TRUE]
     ELSE IF st.fuel = 0 THEN [st EXCEPT !.dd = dd0, !.done = FALSE]
     ELSE LET r == ParseFile(dependency, fs[dependency].text, dd0[dependency], paths,
                             [st EXCEPT !.dd = dd0, !.fuel = @ - 1], TRUE)
          IN [r.st EXCEPT !.dd[dependency] = r.data]

\* results.headerInclusions.forEach from the i-th header on
ForEachHeader(headers, i, data, dependencies, paths, st) ==
  IF i > Len(headers) \/ Stopped(st)
  THEN [data |-> data, dependencies |-> dependencies, st |-> st]
  ELSE
    LET header == headers[i]
        resolvedUri == ResolveIncludePath(fs, paths, header.filename, LocalTo(header, data.uri))
    IN IF IsSelfInclusion(resolvedUri, data)
       THEN ForEachHeader(headers, i + 1, data, dependencies, paths, st)
       ELSE IF resolvedUri = None
       THEN ForEachHeader(headers, i + 1, data, dependencies, paths,
              [st EXCEPT !.diagnostics = PushDiagnostic(@, data.uri, UnresolvedDiagnostic(header))])
       ELSE
         LET st1 == IF NeedsReference(st.reg, data, resolvedUri)
                    THEN [st EXCEPT !.reg = AddReference(@, resolvedUri)] ELSE st
             deps1 == Append(dependencies, resolvedUri)
             st2 == IF NeedsParse(st1.dd, resolvedUri)
                    THEN ParseDependency(resolvedUri, paths, st1) ELSE st1
             data1 == [data EXCEPT !.resolvedInclusions =
                         Append(@, [uri |-> resolvedUri, descriptor |-> header])]
         IN IF Stopped(st2)
            THEN [data |-> data, dependencies |-> deps1, st |-> st2]
            ELSE ForEachHeader(headers, i + 1, data1, deps1, paths, st2)

\* parseFile(fileUri, content, data, diagnostics, isDependency): the record
\* as the pass leaves it, and the pass state
ParseFile(fileUri, content, data, paths, st, isDependency) ==
  LET results == Parse(fileUri, content, isDependency)
      st0 == [st EXCEPT !.diagnostics = Append(@, [uri |-> data.uri, list |-> <<>>]),
                        !.scanned = Append(@, data.uri)]
      data0 == [data EXCEPT !.resolvedInclusions = <<>>]
      loop == ForEachHeader(results.headerInclusions, 1, data0, <<>>, paths, st0)
  IN IF Stopped(loop.st) THEN [data |-> loop.data, st |-> loop.st]
     ELSE [data |-> [loop.data EXCEPT !.dependencies = loop.dependencies,
                                      !.callables = results.callables,
                                      !.values = results.values],
           st |-> [loop.st EXCEPT !.reg =
                     RemoveDependencies(Dropped(data.dependencies, loop.dependencies), 1, @)]]

\* ---------------------------------------------------------------- reparseDocument
NoDup(s) == \A i, j \in 1..Len(s) : i # j => s[i] # s[j]

EmptyFn == [k \in {} |-> 0]

\* a variant: only the first open document is a root of the sweep
FirstRootOnly(all, data) == [i \in 1..(IF Len(all) > 0 THEN 1 ELSE 0) |-> data[all[i]]]

\* documentsManager.all().map((doc) => documentsData.get(doc))
SweepRoots(all, data) == [i \in 1..Len(all) |-> data[all[i]]]

\* what a handler leaves behind: the records, the registry, the cached data,
\* and for the record of the run: whether an exception left the handler,
\* whether every walk ended within its budget, whether no file was scanned
\* twice by a pass and no node expanded twice by a sweep
World(data, reg, dd) ==
  [data |-> data, reg |-> reg, dd |-> dd, thrown |-> FALSE, done |-> TRUE,
   parsedOnce |-> TRUE, sweptOnce |-> TRUE]

\* reparseDocument(document) for an open document that has a record
ReparseDocument(u, text, paths, all, w) ==
  LET Swept(r, data1, s) ==
        [w EXCEPT !.data = data1, !.reg = s.reg, !.dd = s.dd,
                  !.done = @ /\ s.done,
                  !.parsedOnce = @ /\ NoDup(r.st.scanned),
                  !.sweptOnce = @ /\ NoDup(s.trace)]
      Parsed(r, data1) ==
        IF Stopped(r.st)
        THEN [w EXCEPT !.data = data1, !.reg = r.st.reg, !.dd = r.st.dd,
                       !.thrown = r.st.thrown, !.done = @ /\ r.st.done,
                       !.parsedOnce = @ /\ NoDup(r.st.scanned)]
        ELSE Swept(r, data1, RemoveUnreachableDependencies(SweepRoots(all, data1), r.st.reg, r.st.dd))
      Run(r) == Parsed(r, [w.data EXCEPT ![u] = r.data])
  IN Run(ParseFile(u, text, [w.data[u] EXCEPT !.reparseTimer = "null"], paths, Pass(w.reg, w.dd), FALSE))

RECURSIVE ReparseAll(_, _, _, _, _)
\* documentsManager.all().forEach(reparseDocument) from the i-th document
\* on; an exception ends the loop
ReparseAll(all, i, texts, paths, w) ==
  IF i > Len(all) \/ w.thrown \/ ~w.done THEN w
  ELSE ReparseAll(all, i + 1, texts, paths, ReparseDocument(all[i], texts[all[i]], paths, all, w))

Remove(s, e) == SelectSeq(s, LAMBDA x : x # e)

Without(f, k) == [x \in DOMAIN f \ {k} |-> f[x]]

Outcome(op, w) ==
  [op |-> op, thrown |-> w.thrown, done |-> w.done, parsedOnce |-> w.parsedOnce,
   sweptOnce |-> w.sweptOnce]

\* the handlers are followed while the counts stay in the range observed
InRange(reg) == \A n \in DOMAIN reg : reg[n] \in (0 - MaxDeficit)..MaxCount

Install(w) ==
  /\ InRange(w.reg)
  /\ documentsData' = w.data
  /\ registry' = w.reg
  /\ dependenciesData' = w.dd

Here == World(documentsData, registry, dependenciesData)

Pending(u) == timers[u].live + timers[u].stale

\* ---------------------------------------------------------------- handlers
NoQuery == [state |-> "idle"]

Init ==
  /\ fs \in DiskChoices
  /\ includePaths = <<>>
  /\ openDocs = <<>>
  /\ docText = EmptyFn
  /\ documentsData = EmptyFn
  /\ registry = EmptyFn
  /\ dependenciesData = EmptyFn
  /\ timers = [u \in Docs |-> [live |-> 0, stale |-> 0]]
  /\ last = Outcome("init", Here)
  /\ query = NoQuery

\* documentsManager.onDidOpen: a record is made for the new TextDocument
\* object and the document is parsed at once
OnDidOpen(u, text) ==
  /\ ~InSeq(u, openDocs)
  /\ LET all == Append(openDocs, u)
         w == ReparseDocument(u, text, includePaths, all,
                World(documentsData @@ (u :> DocumentData(u)), registry, dependenciesData))
     IN /\ openDocs' = all
        /\ docText' = docText @@ (u :> text)
        /\ Install(w)
        /\ last' = Outcome("open", w)
  /\ UNCHANGED <<fs, includePaths, timers, query>>

\* documentsManager.onDidClose: the manager has dropped the document already;
\* its references are released, the graph is swept, the record is deleted
OnDidClose(u) ==
  /\ InSeq(u, openDocs)
  /\ LET all == Remove(openDocs, u)
         reg1 == RemoveDependencies(documentsData[u].dependencies, 1, registry)
         s == RemoveUnreachableDependencies(SweepRoots(all, documentsData), reg1, dependenciesData)
         w == [Here EXCEPT !.data = Without(documentsData, u), !.reg = s.reg, !.dd = s.dd,
                           !.done = s.done, !.sweptOnce = NoDup(s.trace)]
     IN /\ openDocs' = all
        /\ docText' = Without(docText, u)
        /\ Install(w)
        /\ last' = Outcome("close", w)
  /\ timers' = [timers EXCEPT ![u] = [live |-> 0, stale |-> @.stale + @.live]]
  /\ UNCHANGED <<fs, includePaths, query>>

\* documentsManager.onDidChangeContent: the text is the new one; a delayed
\* reparse is scheduled when the record holds no timer
OnDidChangeContent(u, text) ==
  /\ InSeq(u, openDocs)
  /\ text # docText[u]
  /\ docText' = [docText EXCEPT ![u] = text]
  /\ IF documentsData[u].reparseTimer = "null"
     THEN /\ Pending(u) < MaxPending
          /\ timers' = [timers EXCEPT ![u].live = @ + 1]
          /\ documentsData' = [documentsData EXCEPT ![u].reparseTimer = "set"]
     ELSE UNCHANGED <<timers, documentsData>>
  /\ last' = Outcome("change", Here)
  /\ UNCHANGED <<fs, includePaths, openDocs, registry, dependenciesData, query>>

\* a timer set by onDidChangeContent fires and calls reparseDocument with the
\* TextDocument object it was given
TimerFires(u) ==
  /\ timers[u].live > 0
  /\ timers' = [timers EXCEPT ![u].live = @ - 1]
  /\ LET w == ReparseDocument(u, docText[u], includePaths, openDocs, Here)
     IN Install(w) /\ last' = Outcome("timer", w)
  /\ UNCHANGED <<fs, includePaths, openDocs, docText, query>>

\* a variant: the record is looked up by the URI of the document
HasRecordOfUri(u, closed) == u \in DOMAIN documentsData

\* documentsData.get(document) !== undefined in reparseDocument, for the
\* TextDocument object a timer was given: the records are keyed by the
\* object, and the object of a closed document has none, also when a
\* document of the same URI has been opened since
HasRecord(u, closed) == ~closed /\ u \in DOMAIN documentsData

\* a timer fires whose TextDocument object was closed: reparseDocument finds
\* no record for it and returns
StaleTimerFires(u) ==
  /\ timers[u].stale > 0
  /\ timers' = [timers EXCEPT ![u].stale = @ - 1]
  /\ LET w == IF HasRecord(u, TRUE)
              THEN ReparseDocument(u, docText[u], includePaths, openDocs, Here)
              ELSE Here
     IN Install(w) /\ last' = Outcome("stale", w)
  /\ UNCHANGED <<fs, includePaths, openDocs, docText, query>>

\* connection.onDidChangeConfiguration: the include paths are replaced and
\* every open document is parsed at once
OnDidChangeConfiguration(paths) ==
  /\ includePaths' = paths
  /\ LET w == ReparseAll(openDocs, 1, docText, paths, Here)
     IN Install(w) /\ last' = Outcome("config", w)
  /\ UNCHANGED <<fs, openDocs, docText, timers, query>>

Next ==
  \/ \E u \in Docs, text \in DocTexts : OnDidOpen(u, text)
  \/ \E u \in Docs : OnDidClose(u)
  \/ \E u \in Editable, text \in DocTexts : OnDidChangeContent(u, text)
  \/ \E u \in Docs : TimerFires(u)
  \/ \E u \in Docs : StaleTimerFires(u)
  \/ \E paths \in PathChoices : OnDidChangeConfiguration(paths)

Spec == Init /\ [][Next]_vars

\* ---------------------------------------------------------------- resolution alone
\* The include-path resolution on inputs of its own: a directive of any of
\* the three forms in a file of the directory L, include paths over the
\* directories A and B, and any set of existing files.
QueryNames == {"f", "f.inc"}

QueryPaths == {"A", "B", "L"} \X {"f", "f.inc", "f.inc.inc"}

QueryIncludePaths == { <<"A", "B">>, <<"B", "A">>, <<"A">> }

\* the terminator characters of the three forms: quoted, angle-bracket, and
\* none for a bare file name
TermCharacters == {"\"", ">", ""}

QueryDisk(present) == [p \in QueryPaths |-> IF p \in present THEN File(Text(<<>>, <<>>, <<>>)) ELSE Absent]

Queries ==
  [state : {"asked"}, directive : {Directive(n, t, FALSE) : n \in QueryNames, t \in TermCharacters},
   uri : {<<"L", "a.sma">>}, paths : QueryIncludePaths, present : SUBSET QueryPaths, result : {None}]

InitResolve ==
  /\ fs = Disk(<<>>, <<>>, FALSE, FALSE)
  /\ includePaths = <<>>
  /\ openDocs = <<>>
  /\ docText = EmptyFn
  /\ documentsData = EmptyFn
  /\ registry = EmptyFn
  /\ dependenciesData = EmptyFn
  /\ timers = [u \in Docs |-> [live |-> 0, stale |-> 0]]
  /\ last = Outcome("init", Here)
  /\ query \in Queries

\* the directive is scanned into its descriptor and resolved as parseFile
\* resolves it
Resolve ==
  /\ query.state = "asked"
  /\ LET header == HeaderInclusion(query.directive, 1)
     IN query' = [query EXCEPT !.state = "answered",
                    !.result = ResolveIncludePath(QueryDisk(query.present), query.paths,
                                                  header.filename, LocalTo(header, query.uri))]
  /\ UNCHANGED <<fs, includePaths, openDocs, docText, documentsData,
                 registry, dependenciesData, timers, last>>

SpecResolve == InitResolve /\ [][Resolve]_vars

\* ---------------------------------------------------------------- queries
\* the entries of a list whose file, identifier and position were not seen
\* earlier in it
Dedupe(syms) ==
  SelectSeq([i \in 1..Len(syms) |-> [sym |-> syms[i], first |-> \A j \in 1..(i - 1) : syms[j] # syms[i]]],
            LAMBDA e : e.first)

RECURSIVE Gather(_, _, _, _)
\* the cached callables and values of the nodes of a list, in order
Gather(nodes, i, dd, field) ==
  IF i > Len(nodes) THEN <<>>
  ELSE (IF nodes[i] \in DOMAIN dd THEN dd[nodes[i]][field] ELSE <<>>) \o Gather(nodes, i + 1, dd, field)

\* Helpers.getSymbols(data, dependenciesData): the record's own symbols and
\* those of every node reached from its dependency list, each node expanded
\* once, entries equal in file, identifier and position kept once
GetSymbols(data, dd) ==
  LET w == Walk(data.dependencies, {}, <<>>, dd, FuelLimit)
      cs == Dedupe(data.callables \o Gather(w.trace, 1, dd, "callables"))
      vs == Dedupe(data.values \o Gather(w.trace, 1, dd, "values"))
  IN [callables |-> [i \in 1..Len(cs) |-> cs[i].sym],
      values |-> [i \in 1..Len(vs) |-> vs[i].sym],
      trace |-> w.trace, done |-> w.done]

Front(s) == SubSeq(s, 1, Len(s) - 1)

RECURSIVE ReferenceWalk(_, _, _, _, _)
\* the while loop of collectReferencesForIdentifier: the stack is popped at
\* its end; a URI already collected is skipped, another is collected and the
\* cached dependency list of its node is pushed
ReferenceWalk(stack, uris, trace, dd, fuel) ==
  IF stack = <<>> THEN [uris |-> uris, trace |-> trace, done |-> TRUE]
  ELSE IF fuel = 0 THEN [uris |-> uris, trace |-> trace, done |-> FALSE]
  ELSE LET dep == stack[Len(stack)]
       IN IF dep \in uris THEN ReferenceWalk(Front(stack), uris, trace, dd, fuel)
          ELSE ReferenceWalk(Front(stack) \o DepsOf(dd, dep), uris \cup {dep},
                             Append(trace, dep), dd, fuel - 1)

\* the URIs collectReferencesForIdentifier scans for the record data: those
\* of the open documents, and those reached from the dependency list
CollectReferenceUris(all, data, dd) ==
  ReferenceWalk(data.dependencies, RangeOf(all), <<>>, dd, FuelLimit)

\* ---------------------------------------------------------------- properties
DocA == <<WorkDir, "a.sma">>

DocB == <<WorkDir, "b.sma">>

NodeX == <<IncDir, "x.inc">>

NodeY == <<IncDir, "y.inc">>

IsOpen(u) == InSeq(u, openDocs)

OpenSet == RangeOf(openDocs)

Registered == DOMAIN registry

\* the last handler ran a reparse or a close to its end
Completed == last.op \in {"open", "timer", "config", "close"} /\ ~last.thrown

\* the open documents that list node n
OpenListers(n) == {u \in OpenSet : InSeq(n, documentsData[u].dependencies)}

\* the nodes whose cached data lists node n
NodeListers(n) == {m \in DOMAIN dependenciesData : InSeq(n, dependenciesData[m].dependencies)}

RECURSIVE Closure(_, _)
\* the least set holding S and closed under the cached dependency lists
Closure(S, dd) ==
  LET T == S \cup UNION {RangeOf(DepsOf(dd, n)) : n \in S}
  IN IF T = S THEN S ELSE Closure(T, dd)

\* the nodes reachable from the dependency list of the open document u
ReachableFrom(u) == Closure(RangeOf(documentsData[u].dependencies), dependenciesData)

\* the nodes reachable from the dependency lists of the open documents
ReachableFromOpen == UNION {ReachableFrom(u) : u \in OpenSet}

\* C1 (as claimed): a node that no other node lists is registered exactly
\* while an open document lists it, and its count is then the number of
\* open documents that list it; once no open document lists it, it is gone.
C1_CountIsIncluders ==
  Completed =>
    \A n \in Registered \cup {NodeX, NodeY} :
      NodeListers(n) = {} =>
        /\ n \in Registered <=> OpenListers(n) # {}
        /\ n \in Registered => registry[n] = Cardinality(OpenListers(n))

\* C2 (as claimed): after every completed open, reparse and close, the count
\* of each registered node is the number of distinct records, of open
\* documents and of nodes, that list it.
C2_CountIsListers ==
  Completed =>
    \A n \in Registered :
      registry[n] = Cardinality(OpenListers(n)) + Cardinality(NodeListers(n))

\* C3 (as claimed): no reference count is ever negative.
C3_CountNeverNegative == \A n \in Registered : registry[n] >= 0

\* C4: after every completed reparse and every close the registered nodes
\* are exactly the nodes reachable from the open documents' dependency
\* lists, and the nodes with cached data are exactly the registered nodes.
C4_RegisteredIsReachable ==
  Completed =>
    /\ Registered = ReachableFromOpen
    /\ DOMAIN dependenciesData = Registered

\* C4 witness: a close has left one node registered and removed another
C4_Witness ==
  /\ last.op = "close" /\ ~last.thrown
  /\ OpenSet = {DocB}
  /\ Registered = {<<WorkDir, "y.inc">>}
  /\ includePaths = <<IncDir>>

\* C5: every traversal ends within its budget and expands no node twice: the
\* recursive parse of dependency files and the sweep of the last handler,
\* and the merged-symbol expansion and the reference traversal started from
\* any open document.
C5_TraversalsTerminate ==
  /\ last.done /\ last.parsedOnce /\ last.sweptOnce
  /\ \A u \in OpenSet :
       LET g == GetSymbols(documentsData[u], dependenciesData)
           r == CollectReferenceUris(openDocs, documentsData[u], dependenciesData)
       IN /\ g.done /\ NoDup(g.trace)
          /\ r.done /\ NoDup(r.trace)
          /\ Len(g.trace) <= Cardinality(Registered)
          /\ Len(r.trace) <= Cardinality(Registered)

\* C5 witness: two nodes that list each other have been parsed and are
\* reached from an open document
C5_Witness ==
  /\ Completed
  /\ IsOpen(DocA)
  /\ NodeX \in ReachableFrom(DocA)
  /\ InSeq(NodeY, DepsOf(dependenciesData, NodeX))
  /\ InSeq(NodeX, DepsOf(dependenciesData, NodeY))

SymbolSet(syms) == RangeOf(syms)

\* the symbols a dependency file holds on disk, as a dependency sees them
DiskSymbols(n, field) == SymbolSet(Declared(n, fs[n].text[field], 1, TRUE))

\* no include name on this disk resolves to something that cannot be read
AllReadable == \A p \in DOMAIN fs : fs[p].kind # "dir"

\* C6: the merged view of an open document holds the symbols of its record
\* and of the cached data of every node reachable from its dependency list,
\* nothing else, and no entry twice.  On a disk where every file can be
\* read, the symbols of a reached node are those its file declares (static
\* ones left out).
C6_MergedView ==
  \A u \in OpenSet :
    LET data == documentsData[u]
        g == GetSymbols(data, dependenciesData)
        reach == ReachableFrom(u)
    IN /\ SymbolSet(g.callables) =
            SymbolSet(data.callables) \cup UNION {SymbolSet(dependenciesData[n].callables) : n \in reach \cap DOMAIN dependenciesData}
       /\ SymbolSet(g.values) =
            SymbolSet(data.values) \cup UNION {SymbolSet(dependenciesData[n].values) : n \in reach \cap DOMAIN dependenciesData}
       /\ NoDup(g.callables) /\ NoDup(g.values)
       /\ \A c \in SymbolSet(g.callables) \cup SymbolSet(g.values) : c.file \in {u} \cup reach
       /\ AllReadable =>
            /\ SymbolSet(g.callables) = SymbolSet(data.callables) \cup UNION {DiskSymbols(n, "callables") : n \in reach}
            /\ SymbolSet(g.values) = SymbolSet(data.values) \cup UNION {DiskSymbols(n, "values") : n \in reach}

\* C6 witness: a document that includes one of two mutually including files
\* sees the symbols of both
C6_Witness ==
  /\ Completed
  /\ IsOpen(DocB)
  /\ documentsData[DocB].dependencies = <<NodeY>>
  /\ InSeq(NodeX, DepsOf(dependenciesData, NodeY))
  /\ InSeq(NodeY, DepsOf(dependenciesData, NodeX))
  /\ {c.identifier : c \in SymbolSet(GetSymbols(documentsData[DocB], dependenciesData).callables)}
       = {"f", "h"} \cup {c.identifier : c \in SymbolSet(documentsData[DocB].callables)}

\* C7 (as claimed): an open document never has more than one delayed
\* reparse pending.
C7_OnePendingReparse == \A u \in OpenSet : timers[u].live <= 1

\* the record a pass over the text leaves for the document u when nothing
\* of an earlier pass is left in it
RECURSIVE ResolvedHeaders(_, _, _)
ResolvedHeaders(u, headers, i) ==
  IF i > Len(headers) THEN <<>>
  ELSE LET r == ResolveIncludePath(fs, includePaths, headers[i].filename, LocalTo(headers[i], u))
       IN (IF r = None \/ r = u THEN <<>> ELSE <<[uri |-> r, descriptor |-> headers[i]]>>)
          \o ResolvedHeaders(u, headers, i + 1)

FreshRecord(u, text) ==
  LET results == Parse(u, text, FALSE)
      inclusions == ResolvedHeaders(u, results.headerInclusions, 1)
  IN [uri |-> u, reparseTimer |-> "null", resolvedInclusions |-> inclusions,
      callables |-> results.callables, values |-> results.values,
      dependencies |-> [i \in 1..Len(inclusions) |-> inclusions[i].uri]]

\* C8 (as claimed): the edits made since the last reparse have scheduled
\* exactly one reparse, and when it has run the record is wholly the result
\* of scanning the text of the last edit.
C8_DebouncedReparse ==
  /\ \A u \in OpenSet : documentsData[u].reparseTimer = "set" => timers[u].live = 1
  /\ last.op = "timer" => documentsData[DocA] = FreshRecord(DocA, docText[DocA])

\* the candidate paths in the order tried: each directory with the exact
\* name, then with .inc appended
Candidates(dirs, name) ==
  [k \in 1..(2 * Len(dirs)) |->
     <<dirs[(k + 1) \div 2], IF k % 2 = 1 THEN name ELSE name \o ".inc">>]

\* the first candidate that exists, or none
FirstPresent(cands, present) ==
  IF \E k \in 1..Len(cands) : cands[k] \in present
  THEN cands[CHOOSE k \in 1..Len(cands) :
               cands[k] \in present /\ \A j \in 1..(k - 1) : cands[j] \notin present]
  ELSE None

OwnDir == Dirname(query.uri)

\* C9 (as claimed): the result is the first existing candidate, the
\* including file's own directory being tried first for the quoted form and
\* only for it.
C9_OwnDirOnlyWhenQuoted ==
  query.state = "answered" =>
    query.result =
      FirstPresent(Candidates((IF query.directive.termCharacter = "\"" THEN <<OwnDir>> ELSE <<>>)
                                \o query.paths, query.directive.filename), query.present)

\* C9 (amended): the result is the first existing candidate, the including
\* file's own directory being tried first for every form but the
\* angle-bracket form, then the configured directories in their order,
\* the exact name before the name with .inc appended; none when no
\* candidate exists.
C9_FirstMatchInOrder ==
  query.state = "answered" =>
    query.result =
      FirstPresent(Candidates((IF query.directive.termCharacter # ">" THEN <<OwnDir>> ELSE <<>>)
                                \o query.paths, query.directive.filename), query.present)

\* C9 witness: with the paths A, B and the file only in B, B's path is found
C9_Witness ==
  /\ query.state = "answered"
  /\ query.paths = <<"A", "B">>
  /\ query.directive = Directive("f", "\"", FALSE)
  /\ query.present = {<<"B", "f.inc">>}
  /\ query.result = <<"B", "f.inc">>

\* C10 (as claimed): no error propagates out of a reparse.
C10_NoErrorPropagates == last.op \in {"open", "timer", "config"} => ~last.thrown

\* ---------------------------------------------------------------- characters
\* From here on a text is the sequence of its lines, a line the sequence of
\* its characters, and indexes count from 0 as in the source.
Whitespace == {" "}

Digits == {"0", "1", "2", "3", "4", "5", "6", "7", "8", "9"}

Letters ==
  {"a", "b", "c", "d", "e", "f", "g", "h", "i", "j", "k", "l", "m", "n", "o", "p", "q",
   "r", "s", "t", "u", "v", "w", "x", "y", "z", "A", "B", "C", "D", "E", "F"}

\* what indexing past the end of a string gives
Undefined == ""

\* StringHelpers.isWhitespace
IsWhitespace(c) == c \in Whitespace

\* StringHelpers.isDigit
IsDigit(c) == c \in Digits

\* StringHelpers.isAlpha: a letter, an underscore or @
IsAlpha(c) == c \in Letters \cup {"_", "@"}

\* StringHelpers.isAlphaNum
IsAlphaNum(c) == IsAlpha(c) \/ IsDigit(c)

\* the regular-expression class \w
IsWord(c) == c \in Letters \cup Digits \cup {"_"}

Min(a, b) == IF a < b THEN a ELSE b

Max(a, b) == IF a > b THEN a ELSE b

Clamp(i, n) == Max(0, Min(i, n))

\* s[i]
CharAt(s, i) == IF i >= 0 /\ i < Len(s) THEN s[i + 1] ELSE Undefined

\* s.substring(a, b): the arguments are clamped, and swapped when a > b
Substring(s, a, b) ==
  SubSeq(s, Min(Clamp(a, Len(s)), Clamp(b, Len(s))) + 1, Max(Clamp(a, Len(s)), Clamp(b, Len(s))))

\* s.substring(a)
SubstringFrom(s, a) == Substring(s, a, Len(s))

\* pat occurs in s at index i
OccursAt(s, pat, i) ==
  /\ i >= 0 /\ i + Len(pat) <= Len(s)
  /\ \A k \in 1..Len(pat) : s[i + k] = pat[k]

\* s.indexOf(pat, from)
IndexOfFrom(s, pat, from) ==
  IF \E i \in Max(0, from)..Len(s) : OccursAt(s, pat, i)
  THEN CHOOSE i \in Max(0, from)..Len(s) :
         OccursAt(s, pat, i) /\ \A j \in Max(0, from)..(i - 1) : ~OccursAt(s, pat, j)
  ELSE 0 - 1

\* s.indexOf(pat)
IndexOf(s, pat) == IndexOfFrom(s, pat, 0)

RECURSIVE TrimStart(_)
TrimStart(s) == IF s # <<>> /\ IsWhitespace(Head(s)) THEN TrimStart(Tail(s)) ELSE s

RECURSIVE TrimEnd(_)
TrimEnd(s) ==
  IF s # <<>> /\ IsWhitespace(s[Len(s)]) THEN TrimEnd(SubSeq(s, 1, Len(s) - 1)) ELSE s

\* s.trim()
Trim(s) == TrimEnd(TrimStart(s))

\* ---------------------------------------------------------------- comments and braces
CommentStart == <<"/", "*">>

CommentEnd == <<"*", "/">>

LineComment == <<"/", "/">>

NewLine == "\n"

RECURSIVE HandleMultilineComments(_, _, _, _)
\* handleMultilineComments(lineContent, inComment), with the module's
\* docComment buffer passed in and out, and a budget of calls: done is
\* FALSE when the budget did not suffice
HandleMultilineComments(lineContent, inComment, docComment, fuel) ==
  IF fuel = 0
  THEN [content |-> lineContent, inComment |-> inComment, docComment |-> docComment, done |-> FALSE]
  ELSE IF inComment
  THEN IF IndexOf(lineContent, CommentEnd) >= 0
       THEN HandleMultilineComments(
              SubstringFrom(lineContent, IndexOf(lineContent, CommentEnd) + 2), FALSE,
              docComment \o Substring(lineContent, 0, IndexOf(lineContent, CommentEnd) + 2),
              fuel - 1)
       ELSE [content |-> Trim(lineContent), inComment |-> TRUE,
             docComment |-> docComment \o lineContent \o <<NewLine>>, done |-> TRUE]
  ELSE IF IndexOf(lineContent, CommentStart) >= 0
  THEN IF IndexOf(lineContent, CommentEnd) >= 0
       THEN HandleMultilineComments(
              Substring(lineContent, 0, IndexOf(lineContent, CommentStart))
                \o SubstringFrom(lineContent, IndexOf(lineContent, CommentEnd) + 2),
              FALSE,
              Substring(lineContent, IndexOf(lineContent, CommentStart),
                        IndexOf(lineContent, CommentEnd) + 2),
              fuel - 1)
       ELSE [content |-> Trim(Substring(lineContent, 0, IndexOf(lineContent, CommentStart))),
             inComment |-> TRUE,
             docComment |-> SubstringFrom(lineContent, IndexOf(lineContent, CommentStart)) \o <<NewLine>>,
             done |-> TRUE]
  ELSE [content |-> Trim(lineContent), inComment |-> FALSE, docComment |-> docComment, done |-> TRUE]

\* handleComments(lineContent, inComment)
HandleComments(lineContent, inComment, docComment) ==
  HandleMultilineComments(
    IF IndexOf(lineContent, LineComment) >= 0
    THEN Trim(Substring(lineContent, 0, IndexOf(lineContent, LineComment)))
    ELSE lineContent,
    inComment, docComment, CommentFuel)

RECURSIVE CountFrom(_, _, _)
\* the occurrences of the character c in s from index i on
CountFrom(s, c, i) ==
  IF i >= Len(s) THEN 0 ELSE (IF CharAt(s, i) = c THEN 1 ELSE 0) + CountFrom(s, c, i + 1)

\* handleBracketDepth(lineContent)
HandleBracketDepth(lineContent) == CountFrom(lineContent, "{", 0) - CountFrom(lineContent, "}", 0)

\* ---------------------------------------------------------------- tokens
KwNew == <<"n", "e", "w">>

KwStatic == <<"s", "t", "a", "t", "i", "c">>

KwPublic == <<"p", "u", "b", "l", "i", "c">>

KwStock == <<"s", "t", "o", "c", "k">>

KwConst == <<"c", "o", "n", "s", "t">>

KwEnum == <<"e", "n", "u", "m">>

KwReturn == <<"r", "e", "t", "u", "r", "n">>

KwInclude == <<"i", "n", "c", "l", "u", "d", "e">>

KwTryinclude == <<"t", "r", "y", "i", "n", "c", "l", "u", "d", "e">>

KwDefine == <<"d", "e", "f", "i", "n", "e">>

RECURSIVE SkipWhitespace(_, _)
\* the first index from position on that is the end, a semicolon or not
\* whitespace
SkipWhitespace(content, position) ==
  IF position # Len(content) /\ CharAt(content, position) # ";" /\ IsWhitespace(CharAt(content, position))
  THEN SkipWhitespace(content, position + 1) ELSE position

RECURSIVE CopyIdentifier(_, _, _)
\* the end of the run copied by readIdentifier from position on: a first
\* character accepted by isAlpha, then characters accepted by isAlphaNum
CopyIdentifier(content, position, firstPass) ==
  IF /\ position # Len(content)
     /\ CharAt(content, position) # ";"
     /\ (IF firstPass THEN IsAlpha(CharAt(content, position)) ELSE IsAlphaNum(CharAt(content, position)))
  THEN CopyIdentifier(content, position + 1, FALSE) ELSE position

\* readIdentifier(content, position)
ReadIdentifier(content, position) ==
  LET Read(from) ==
        IF from = Len(content) \/ CharAt(content, from) = ";"
        THEN [token |-> <<>>, position |-> Len(content)]
        ELSE LET Copied(to) ==
                   [token |-> Substring(content, from, to),
                    position |-> IF CharAt(content, to) = ";" THEN Len(content) ELSE to]
             IN Copied(CopyIdentifier(content, from, TRUE))
  IN Read(SkipWhitespace(content, position))

\* the SpecifierResults readSpecicifers starts from
InitialSpecifiers(position, initialToken) ==
  [isStatic |-> initialToken = KwStatic, isPublic |-> initialToken = KwPublic,
   isConst |-> initialToken = KwConst, isStock |-> initialToken = KwStock,
   position |-> position, wrongCombination |-> FALSE]

\* the switch on the token read: the results, or none for a token that is
\* no specifier
SpecifierStep(results, token) ==
  IF token = KwStatic
  THEN IF results.isStatic \/ results.isPublic THEN [results EXCEPT !.wrongCombination = TRUE]
       ELSE [results EXCEPT !.isStatic = TRUE]
  ELSE IF token = KwPublic
  THEN IF results.isPublic \/ results.isStatic THEN [results EXCEPT !.wrongCombination = TRUE]
       ELSE [results EXCEPT !.isPublic = TRUE]
  ELSE IF token = KwConst
  THEN IF results.isConst THEN [results EXCEPT !.wrongCombination = TRUE]
       ELSE [results EXCEPT !.isConst = TRUE]
  ELSE IF token = KwStock
  THEN IF results.isStock THEN [results EXCEPT !.wrongCombination = TRUE]
       ELSE [results EXCEPT !.isStock = TRUE]
  ELSE IF token = KwNew THEN [results EXCEPT !.wrongCombination = TRUE]
  ELSE None

RECURSIVE SpecifierLoop(_, _, _, _)
\* the do-while loop of readSpecicifers, previousPosition being where the
\* next token is read from
SpecifierLoop(content, results, previousPosition, initialToken) ==
  LET Stepped(tr, next) ==
        IF next = None THEN [results EXCEPT !.position = previousPosition]
        ELSE IF next.wrongCombination \/ initialToken = KwConst
        THEN [next EXCEPT !.wrongCombination = TRUE, !.position = tr.position]
        ELSE SpecifierLoop(content, next, tr.position, initialToken)
      Looked(tr) == Stepped(tr, SpecifierStep(results, tr.token))
  IN Looked(ReadIdentifier(content, previousPosition))

\* readSpecicifers(content, position, initialToken)
ReadSpecicifers(content, position, initialToken) ==
  SpecifierLoop(content, InitialSpecifiers(position, initialToken), position, initialToken)

\* ---------------------------------------------------------------- declaration lists
\* isEscapedQuote(text, index)
IsEscapedQuote(text, index) == index > 0 /\ CharAt(text, index - 1) \in {"\\", "^"}

RECURSIVE SplitFrom(_, _, _, _, _, _, _)
\* the for loop of splitTopLevelComma from index i on, with the final push
SplitFrom(text, i, start, depthParen, depthBracket, depthBrace, inString) ==
  IF i >= Len(text) THEN <<[text |-> SubstringFrom(text, start), start |-> start]>>
  ELSE IF inString
  THEN SplitFrom(text, i + 1, start, depthParen, depthBracket, depthBrace,
                 ~(CharAt(text, i) = "\"" /\ ~IsEscapedQuote(text, i)))
  ELSE IF CharAt(text, i) = "\"" /\ ~IsEscapedQuote(text, i)
  THEN SplitFrom(text, i + 1, start, depthParen, depthBracket, depthBrace, TRUE)
  ELSE IF CharAt(text, i) = "("
  THEN SplitFrom(text, i + 1, start, depthParen + 1, depthBracket, depthBrace, FALSE)
  ELSE IF CharAt(text, i) = ")"
  THEN SplitFrom(text, i + 1, start, Max(0, depthParen - 1), depthBracket, depthBrace, FALSE)
  ELSE IF CharAt(text, i) = "["
  THEN SplitFrom(text, i + 1, start, depthParen, depthBracket + 1, depthBrace, FALSE)
  ELSE IF CharAt(text, i) = "]"
  THEN SplitFrom(text, i + 1, start, depthParen, Max(0, depthBracket - 1), depthBrace, FALSE)
  ELSE IF CharAt(text, i) = "{"
  THEN SplitFrom(text, i + 1, start, depthParen, depthBracket, depthBrace + 1, FALSE)
  ELSE IF CharAt(text, i) = "}"
  THEN SplitFrom(text, i + 1, start, depthParen, depthBracket, Max(0, depthBrace - 1), FALSE)
  ELSE IF CharAt(text, i) = "," /\ depthParen = 0 /\ depthBracket = 0 /\ depthBrace = 0
  THEN <<[text |-> Substring(text, start, i), start |-> start]>>
         \o SplitFrom(text, i + 1, i + 1, depthParen, depthBracket, depthBrace, FALSE)
  ELSE SplitFrom(text, i + 1, start, depthParen, depthBracket, depthBrace, FALSE)

\* splitTopLevelComma(text)
SplitTopLevelComma(text) == SplitFrom(text, 0, 0, 0, 0, 0, FALSE)

\* the classes [A-Za-z_@] and [\w_@] of the regular expressions
IsNameStart(c) == c \in Letters \cup {"_", "@"}

IsNamePart(c) == IsWord(c) \/ c = "@"

RECURSIVE SkipSpaces(_, _)
\* \s* from index i on: the first index whose character is no whitespace
SkipSpaces(s, i) == IF i < Len(s) /\ IsWhitespace(CharAt(s, i)) THEN SkipSpaces(s, i + 1) ELSE i

RECURSIVE SkipNameParts(_, _)
\* [\w_@]* from index i on
SkipNameParts(s, i) == IF i < Len(s) /\ IsNamePart(CharAt(s, i)) THEN SkipNameParts(s, i + 1) ELSE i

\* the end of the longest [A-Za-z_@][\w_@]* at index i (i itself: none)
NameEnd(s, i) == IF IsNameStart(CharAt(s, i)) THEN SkipNameParts(s, i + 1) ELSE i

\* text.match(/^(?:([A-Za-z_@][\w_@]*)\s*:\s*)?([A-Za-z_@][\w_@]*)/): the
\* tag and the identifier, or none
MatchTaggedName(text) ==
  LET Tagged(e1, afterColon) ==
        IF /\ e1 > 0
           /\ CharAt(text, SkipSpaces(text, e1)) = ":"
           /\ NameEnd(text, afterColon) > afterColon
        THEN [tag |-> Substring(text, 0, e1),
              identifier |-> Substring(text, afterColon, NameEnd(text, afterColon))]
        ELSE IF e1 > 0 THEN [tag |-> <<>>, identifier |-> Substring(text, 0, e1)]
        ELSE None
      From(e1) == Tagged(e1, SkipSpaces(text, SkipSpaces(text, e1) + 1))
  IN From(NameEnd(text, 0))

HexDigits == Digits \cup {"a", "b", "c", "d", "e", "f", "A", "B", "C", "D", "E", "F"}

ExpressionChars ==
  HexDigits \cup {"x", "X", " ", "(", ")", "|", "&", "^", "~", "<", ">", "+", "-", "*", "/", "%"}

\* isSimpleDefineValue(value)
IsSimpleDefineValue(value) ==
  LET Simple(text) ==
        /\ Len(text) > 0
        /\ \/ text = <<"t", "r", "u", "e">>
           \/ text = <<"f", "a", "l", "s", "e">>
           \/ /\ \E i \in 1..Len(text) : text[i] \in Digits
              /\ \A i \in 1..Len(text) : text[i] \in ExpressionChars
           \/ /\ Len(text) > 2 /\ text[1] = "0" /\ text[2] = "x"
              /\ \A i \in 3..Len(text) : text[i] \in HexDigits
           \/ \A i \in 1..Len(text) : text[i] \in Digits
           \/ /\ Len(text) >= 2 /\ text[1] = "\"" /\ text[Len(text)] = "\""
              /\ \A i \in 2..(Len(text) - 1) : text[i] # "\""
  IN Simple(Trim(value))

\* cut at the first occurrence of pat, and trimmed then; s when pat is absent
CutAt(s, pat) == IF IndexOf(s, pat) >= 0 THEN Trim(Substring(s, 0, IndexOf(s, pat))) ELSE s

\* extractAssignedValue(part): the value, or none
ExtractAssignedValue(part) ==
  LET NoSemicolon(value) ==
        IF Len(value) > 0 /\ value[Len(value)] = ";"
        THEN Trim(Substring(value, 0, Len(value) - 1)) ELSE value
      Result(value) == IF Len(value) > 0 THEN value ELSE None
  IN IF IndexOf(part, <<"=">>) < 0 THEN None
     ELSE Result(NoSemicolon(CutAt(CutAt(Trim(SubstringFrom(part, IndexOf(part, <<"=">>) + 1)),
                                         LineComment), CommentStart)))

\* the assignedValue of a descriptor: the value when it is a simple one
SimpleValue(assignedValue) ==
  IF assignedValue # None /\ IsSimpleDefineValue(assignedValue) THEN assignedValue ELSE None

\* the descriptor pushed by parseVariableListLine for one part
ListValue(part, name, base, lineIndex, sr, docComment) ==
  LET At(startChar) ==
        [identifier |-> name.identifier, isConst |-> sr.isConst,
         assignedValue |-> IF sr.isConst THEN SimpleValue(ExtractAssignedValue(part.text)) ELSE None,
         isEnumMember |-> FALSE, isEnumType |-> FALSE, enumGroup |-> None,
         line |-> lineIndex, start |-> startChar, end |-> startChar + Len(name.identifier),
         documentaton |-> docComment]
  IN At(IF IndexOf(part.text, name.identifier) >= 0
        THEN base + part.start + IndexOf(part.text, name.identifier)
        ELSE base + part.start)

RECURSIVE ListValues(_, _, _, _, _, _)
\* parts.forEach of parseVariableListLine from the i-th part on
ListValues(parts, i, base, lineIndex, sr, docComment) ==
  IF i > Len(parts) THEN <<>>
  ELSE (IF Len(Trim(parts[i].text)) = 0 \/ MatchTaggedName(Trim(parts[i].text)) = None THEN <<>>
        ELSE <<ListValue(parts[i], MatchTaggedName(Trim(parts[i].text)), base, lineIndex, sr, docComment)>>)
       \o ListValues(parts, i + 1, base, lineIndex, sr, docComment)

\* parseVariableListLine(lineContent, rawLine, lineIndex, fileUri, sr,
\* results, startOffset): the values it pushes
ParseVariableListLine(lineContent, rawLine, lineIndex, sr, startOffset, docComment) ==
  IF sr = None THEN <<>>
  ELSE ListValues(SplitTopLevelComma(SubstringFrom(lineContent, startOffset)), 1,
                  Max(0, IndexOf(rawLine, lineContent)) + startOffset, lineIndex, sr, docComment)

\* ---------------------------------------------------------------- enumerations
\* the descriptor pushed by parseEnumLine for the identifier of one part,
\* startChar being rawLine.indexOf(identifier, lineBase + offset)
EnumValue(identifier, startChar, from, lineIndex, enumName, docComment) ==
  [identifier |-> identifier, isConst |-> TRUE, assignedValue |-> None,
   isEnumMember |-> TRUE, isEnumType |-> FALSE, enumGroup |-> enumName,
   line |-> lineIndex, start |-> Max(0, startChar),
   end |-> Max(0, IF startChar >= 0 THEN startChar + Len(identifier) ELSE from + Len(identifier)),
   documentaton |-> docComment]

RECURSIVE EnumValues(_, _, _, _, _, _, _)
\* parts.forEach of parseEnumLine from the i-th part on; the match
\* /^(?:[A-Za-z_@][\w_@]*\s*:\s*)?([A-Za-z_@][\w_@]*)/ is the one of
\* declaration lists without the tag captured
EnumValues(parts, i, rawLine, from, lineIndex, enumName, docComment) ==
  IF i > Len(parts) THEN <<>>
  ELSE (IF Len(Trim(parts[i].text)) = 0 \/ MatchTaggedName(Trim(parts[i].text)) = None THEN <<>>
        ELSE <<EnumValue(MatchTaggedName(Trim(parts[i].text)).identifier,
                         IndexOfFrom(rawLine, MatchTaggedName(Trim(parts[i].text)).identifier,
                                     from + parts[i].start),
                         from + parts[i].start, lineIndex, enumName, docComment)>>)
       \o EnumValues(parts, i + 1, rawLine, from, lineIndex, enumName, docComment)

\* the content parseEnumLine splits: what follows the first opening brace,
\* up to the first closing brace after it
EnumContent(lineContent) ==
  LET Closed(content) ==
        IF IndexOf(content, <<"}">>) >= 0 THEN Substring(content, 0, IndexOf(content, <<"}">>))
        ELSE content
  IN Closed(IF IndexOf(lineContent, <<"{">>) >= 0
            THEN SubstringFrom(lineContent, IndexOf(lineContent, <<"{">>) + 1)
            ELSE lineContent)

\* parseEnumLine(lineContent, rawLine, lineIndex, fileUri, results,
\* enumName): the values it pushes
ParseEnumLine(lineContent, rawLine, lineIndex, enumName, docComment) ==
  EnumValues(SplitTopLevelComma(EnumContent(lineContent)), 1, rawLine,
             Max(0, IndexOf(rawLine, lineContent)) + Len(lineContent) - Len(EnumContent(lineContent)),
             lineIndex, enumName, docComment)

\* lineContent.match(/^enum\s+(?:_?\s*:\s*)?([A-Za-z_@][\w_@]*)/): the name,
\* or none
MatchEnumName(lineContent) ==
  LET Name(p) == IF NameEnd(lineContent, p) > p THEN Substring(lineContent, p, NameEnd(lineContent, p))
                 ELSE None
      \* the optional group _?\s*:\s* from p on, p when it does not match
      \* or when no name follows it
      Tagged(p, colon) ==
        IF CharAt(lineContent, colon) = ":" /\ Name(SkipSpaces(lineContent, colon + 1)) # None
        THEN Name(SkipSpaces(lineContent, colon + 1))
        ELSE Name(p)
      After(p) ==
        IF CharAt(lineContent, p) = "_"
             /\ CharAt(lineContent, SkipSpaces(lineContent, p + 1)) = ":"
             /\ Name(SkipSpaces(lineContent, SkipSpaces(lineContent, p + 1) + 1)) # None
        THEN Name(SkipSpaces(lineContent, SkipSpaces(lineContent, p + 1) + 1))
        ELSE Tagged(p, p)
  IN IF Substring(lineContent, 0, 4) = KwEnum /\ IsWhitespace(CharAt(lineContent, 4))
     THEN After(SkipSpaces(lineContent, 4))
     ELSE None

\* parseEnumName(lineContent, rawLine, lineIndex, fileUri, results): the
\* values it pushes
ParseEnumName(lineContent, rawLine, lineIndex, docComment) ==
  LET Pushed(name, startChar) ==
        <<[identifier |-> name, isConst |-> TRUE, assignedValue |-> None,
           isEnumMember |-> FALSE, isEnumType |-> TRUE, enumGroup |-> None,
           line |-> lineIndex, start |-> Max(0, startChar),
           end |-> Max(0, IF startChar >= 0 THEN startChar + Len(name) ELSE Len(name)),
           documentaton |-> docComment]>>
  IN IF MatchEnumName(lineContent) = None THEN <<>>
     ELSE Pushed(MatchEnumName(lineContent), IndexOf(rawLine, MatchEnumName(lineContent)))

\* ---------------------------------------------------------------- callables
RECURSIVE SplitAtCommas(_, _, _)
\* text.split(',').map(value => value.trim()) from index i on, start being
\* where the current piece began
SplitAtCommas(text, i, start) ==
  IF i >= Len(text) THEN <<Trim(SubstringFrom(text, start))>>
  ELSE IF CharAt(text, i) = ","
  THEN <<Trim(Substring(text, start, i))>> \o SplitAtCommas(text, i + 1, i + 1)
  ELSE SplitAtCommas(text, i + 1, start)

\* the parameter labels of an argument text
Parameters(text) == IF Len(Trim(text)) > 0 THEN SplitAtCommas(text, 0, 0) ELSE <<>>

\* the end of the longest [A-Za-z_@][\w_@]+ at index i (i itself: none)
LongNameEnd(s, i) == IF NameEnd(s, i) >= i + 2 THEN NameEnd(s, i) ELSE i

RECURSIVE SkipDimensions(_, _)
\* (?:\[[^\]]+\]\s*)* of callableRegex from index i on
SkipDimensions(s, i) ==
  IF CharAt(s, i) = "[" /\ IndexOfFrom(s, <<"]">>, i + 1) > i + 1
  THEN SkipDimensions(s, SkipSpaces(s, IndexOfFrom(s, <<"]">>, i + 1) + 1))
  ELSE i

\* callableRegex from its third group on, tried at index i:
\* ([A-Za-z_@][\w_@]+)\s*\((.*?)\)
MatchCallableName(s, i, specifiers) ==
  LET Open(e) == SkipSpaces(s, e)
      Close(e) == IndexOfFrom(s, <<")">>, Open(e) + 1)
      Named(e) ==
        IF e > i /\ CharAt(s, Open(e)) = "(" /\ Close(e) >= 0
        THEN [specifiers |-> specifiers, identifier |-> Substring(s, i, e),
              arguments |-> Substring(s, Open(e) + 1, Close(e)), length |-> Close(e) + 1]
        ELSE None
  IN Named(LongNameEnd(s, i))

\* callableRegex from its second group on, tried at index i: the optional
\* tag ([A-Za-z_@][\w_@]+\s*:\s*)?, the dimensions, and the rest
MatchCallableTag(s, i, specifiers) ==
  LET Untagged == MatchCallableName(s, SkipDimensions(s, i), specifiers)
      Tagged(e) ==
        IF e > i /\ CharAt(s, SkipSpaces(s, e)) = ":"
        THEN MatchCallableName(s, SkipDimensions(s, SkipSpaces(s, SkipSpaces(s, e) + 1)), specifiers)
        ELSE None
      First(tagged) == IF tagged # None THEN tagged ELSE Untagged
  IN First(Tagged(LongNameEnd(s, i)))

RECURSIVE MatchCallableFrom(_, _)
\* callableRegex tried at index 0 with the first group
\* ((?:[A-Za-z_@][\w_@]*\s+)*)? having consumed s up to index i: the
\* longest run of specifier words is tried first
MatchCallableFrom(s, i) ==
  LET Longer(e) ==
        IF e > i /\ IsWhitespace(CharAt(s, e)) THEN MatchCallableFrom(s, SkipSpaces(s, e)) ELSE None
      First(longer) == IF longer # None THEN longer ELSE MatchCallableTag(s, i, Substring(s, 0, i))
  IN First(Longer(NameEnd(s, i)))

\* lineContent.match(callableRegex) with matches.index === 0, or none
MatchCallable(lineContent) == MatchCallableFrom(lineContent, 0)

\* ---------------------------------------------------------------- the scanner
\* Number.MAX_VALUE, the end of the range of the extra-characters diagnostic
MaxValue == 999

UnmatchedBrace == "Unmatched closing brace"

NotTerminated == "The #include statement is not terminated properly"

ExtraCharacters == "No extra characters are allowed after an #include statement"

InvalidSpecifiers == "Invalid combination of class specifiers"

ExpectedIdentifier == "Expected an identifier"

Diagnostic(message, lineIndex, start, end) ==
  [message |-> message, line |-> lineIndex, start |-> start, end |-> end]

\* the variables of parse() at its start, with the module's docComment
\* buffer as the caller left it; done turns FALSE when a call did not return
StartOfParse(docComment) ==
  [values |-> <<>>, callables |-> <<>>, diagnostics |-> <<>>, headerInclusions |-> <<>>,
   bracketDepth |-> 0, inComment |-> FALSE, inEnum |-> FALSE, enumDepth |-> 0,
   enumAwaitBrace |-> FALSE, enumName |-> None, inGlobalDecl |-> FALSE,
   globalDeclSpec |-> None, globalDeclOffset |-> 0, globalDeclLine |-> 0 - 1,
   docComment |-> docComment, done |-> TRUE]

RECURSIVE ReportUnmatched(_, _, _, _)
\* the loop that looks for the excessive closing brace, from contentIndex
\* down, bracketDepth being the counter it increments
ReportUnmatched(st, lineContent, lineIndex, contentIndex) ==
  IF contentIndex < 0 THEN [st EXCEPT !.bracketDepth = 0]
  ELSE IF st.bracketDepth + (IF CharAt(lineContent, contentIndex) = "}" THEN 1 ELSE 0) = 0
  THEN [st EXCEPT !.bracketDepth = 0,
                  !.diagnostics = @ \o <<Diagnostic(UnmatchedBrace, lineIndex, contentIndex,
                                                    contentIndex + 1)>>]
  ELSE ReportUnmatched(
         [st EXCEPT !.bracketDepth = @ + (IF CharAt(lineContent, contentIndex) = "}" THEN 1 ELSE 0)],
         lineContent, lineIndex, contentIndex - 1)

\* a line inside an enumeration
EnumLine(st, lineContent, rawLine, lineIndex, depthAfter) ==
  IF st.enumAwaitBrace /\ IndexOf(lineContent, <<"{">>) < 0 THEN st
  ELSE [st EXCEPT !.enumAwaitBrace = FALSE,
                  !.values = @ \o ParseEnumLine(lineContent, rawLine, lineIndex, st.enumName,
                                                st.docComment),
                  !.inEnum = ~(depthAfter < st.enumDepth),
                  !.enumDepth = IF depthAfter < st.enumDepth THEN 0 ELSE @,
                  !.enumName = IF depthAfter < st.enumDepth THEN None ELSE @]

\* a line continuing a global declaration list
GlobalDeclLine(st, lineContent, rawLine, lineIndex) ==
  [st EXCEPT !.values = @ \o ParseVariableListLine(
                                lineContent, rawLine, lineIndex, st.globalDeclSpec,
                                IF st.globalDeclLine = lineIndex THEN st.globalDeclOffset ELSE 0,
                                st.docComment),
             !.globalDeclOffset = 0,
             !.inGlobalDecl = ~(IndexOf(lineContent, <<";">>) >= 0),
             !.globalDeclSpec = IF IndexOf(lineContent, <<";">>) >= 0 THEN None ELSE @,
             !.globalDeclLine = IF IndexOf(lineContent, <<";">>) >= 0 THEN 0 - 1 ELSE @]

RECURSIVE SkipAlphaNum(_, _)
\* the macro name loop: the first index from i on not accepted by isAlphaNum
SkipAlphaNum(s, i) == IF i < Len(s) /\ IsAlphaNum(CharAt(s, i)) THEN SkipAlphaNum(s, i + 1) ELSE i

\* a variant: the parameter list of a #define is not read
NoMacroParameters(lineContent, idx) == <<>>

\* the parameters of a #define whose name ends at index idx
MacroParameters(lineContent, idx) ==
  IF /\ idx < Len(lineContent) /\ CharAt(lineContent, idx) = "("
     /\ IndexOfFrom(lineContent, <<")">>, idx + 1) > idx
  THEN Parameters(Substring(lineContent, idx + 1, IndexOfFrom(lineContent, <<")">>, idx + 1)))
  ELSE <<>>

\* the value of a #define whose name ends at index idx
MacroValue(lineContent, idx, params) ==
  IF params = <<>> /\ idx < Len(lineContent)
  THEN CutAt(CutAt(Trim(SubstringFrom(lineContent, idx)), LineComment), CommentStart)
  ELSE <<>>

\* the #define branch of the preprocessor handling
DefineLine(st, lineContent, lineIndex) ==
  LET Pushed(nameStart, idx, params, value) ==
        IF idx = nameStart THEN st
        ELSE [st EXCEPT
                !.callables = @ \o
                  <<[identifier |-> Substring(lineContent, nameStart, idx),
                     isMacro |-> Len(params) > 0 \/ IsSimpleDefineValue(value),
                     line |-> lineIndex, start |-> nameStart, end |-> idx,
                     parameters |-> params,
                     documentaton |-> IF params = <<>> /\ IsSimpleDefineValue(value)
                                      THEN <<>> ELSE st.docComment]>>,
                !.values = @ \o
                  (IF params # <<>> THEN <<>>
                   ELSE <<[identifier |-> Substring(lineContent, nameStart, idx), isConst |-> TRUE,
                           assignedValue |-> IF IsSimpleDefineValue(value) THEN value ELSE None,
                           isEnumMember |-> FALSE, isEnumType |-> FALSE, enumGroup |-> None,
                           line |-> lineIndex, start |-> nameStart, end |-> idx,
                           documentaton |-> IF IsSimpleDefineValue(value) THEN <<>>
                                            ELSE st.docComment]>>),
                !.docComment = <<>>]
      Valued(nameStart, idx, params) ==
        Pushed(nameStart, idx, params, MacroValue(lineContent, idx, params))
      Named(nameStart, idx) == Valued(nameStart, idx, MacroParameters(lineContent, idx))
      From(nameStart) == Named(nameStart, SkipAlphaNum(lineContent, nameStart))
  IN IF Substring(lineContent, 1, 7) = KwDefine THEN From(SkipSpaces(lineContent, 7)) ELSE st

RECURSIVE FilenameEnd(_, _, _)
\* the filename loop: the first index from charIndex on that is the end of
\* the line or holds termCharacter
FilenameEnd(lineContent, charIndex, termCharacter) ==
  IF CharAt(lineContent, charIndex) # termCharacter /\ charIndex # Len(lineContent)
  THEN FilenameEnd(lineContent, charIndex + 1, termCharacter)
  ELSE charIndex

\* the preprocessor handling: #include and #tryinclude, then #define on
\* what is in lineContent by then
PreprocessorLine(st, lineContent, lineIndex) ==
  LET Closed(rest, startIndex, termCharacter, from, charIndex) ==
        IF \/ charIndex = Len(rest) /\ termCharacter # Undefined
           \/ CharAt(rest, charIndex) # termCharacter
        THEN [st EXCEPT !.diagnostics = @ \o
                <<Diagnostic(NotTerminated, lineIndex, 0, startIndex + charIndex + 1)>>]
        ELSE IF termCharacter # Undefined /\ charIndex # Len(rest) - 1
        THEN [st EXCEPT !.diagnostics = @ \o
                <<Diagnostic(ExtraCharacters, lineIndex, startIndex + charIndex + 1, MaxValue)>>]
        ELSE DefineLine(
               [st EXCEPT !.headerInclusions = @ \o
                  <<[filename |-> Trim(Substring(rest, from, charIndex)),
                     isLocal |-> termCharacter # ">",
                     isSilent |-> startIndex = 11,
                     line |-> lineIndex, start |-> 0, end |-> startIndex + charIndex + 1]>>],
               rest, lineIndex)
      Opened(rest, startIndex, termCharacter, from) ==
        Closed(rest, startIndex, termCharacter, from, FilenameEnd(rest, from, termCharacter))
      Spaced(rest, startIndex, charIndex) ==
        IF CharAt(rest, charIndex) = "\"" THEN Opened(rest, startIndex, "\"", charIndex + 1)
        ELSE IF CharAt(rest, charIndex) = "<" THEN Opened(rest, startIndex, ">", charIndex + 1)
        ELSE Opened(rest, startIndex, Undefined, charIndex)
      Included(startIndex) ==
        IF /\ ~IsWhitespace(CharAt(lineContent, startIndex))
           /\ CharAt(lineContent, startIndex) \notin {"\"", "<"}
        THEN st
        ELSE Spaced(SubstringFrom(lineContent, startIndex), startIndex,
                    SkipSpaces(SubstringFrom(lineContent, startIndex), 0))
  IN IF Substring(lineContent, 1, 11) = KwTryinclude THEN Included(11)
     ELSE IF Substring(lineContent, 1, 8) = KwInclude THEN Included(8)
     ELSE DefineLine(st, lineContent, lineIndex)

SpecifierWords == {KwNew, KwStatic, KwPublic, KwStock, KwConst}

\* a line that starts with enum
EnumStart(st, lineContent, rawLine, lineIndex, depthAfter) ==
  LET Named(name, pushed) ==
        IF IndexOf(lineContent, <<"{">>) >= 0
        THEN [st EXCEPT
                !.values = @ \o pushed \o ParseEnumLine(lineContent, rawLine, lineIndex, name,
                                                        st.docComment),
                !.inEnum = ~(IndexOf(lineContent, <<"}">>) >= 0),
                !.enumDepth = IF IndexOf(lineContent, <<"}">>) >= 0 THEN 0 ELSE depthAfter,
                !.enumName = IF IndexOf(lineContent, <<"}">>) >= 0 THEN None ELSE name]
        ELSE [st EXCEPT !.values = @ \o pushed, !.inEnum = TRUE, !.enumAwaitBrace = TRUE,
                        !.enumDepth = depthAfter + 1, !.enumName = name]
  IN Named(MatchEnumName(lineContent), ParseEnumName(lineContent, rawLine, lineIndex, st.docComment))

\* the specifiers of a line that opens a global declaration list, or none:
\* a line without parenthesis that starts with a specifier word, whose
\* specifiers combine, and that has a comma or no identifier after them
ListSpecifiers(lineContent) ==
  LET Listed(sr) ==
        IF /\ ~sr.wrongCombination
           /\ \/ ReadIdentifier(lineContent, sr.position).token = <<>>
              \/ IndexOf(lineContent, <<",">>) >= 0
        THEN sr ELSE None
      Read(tr) == IF tr.token \in SpecifierWords
                  THEN Listed(ReadSpecicifers(lineContent, tr.position, tr.token)) ELSE None
  IN IF IndexOf(lineContent, <<"(">>) < 0 THEN Read(ReadIdentifier(lineContent, 0)) ELSE None

\* the line that opens a global declaration list with the specifiers sr
ListStart(st, lineContent, rawLine, lineIndex, sr) ==
  [st EXCEPT !.values = @ \o ParseVariableListLine(lineContent, rawLine, lineIndex, sr,
                                                   sr.position, st.docComment),
             !.inGlobalDecl = ~(IndexOf(lineContent, <<";">>) >= 0),
             !.globalDeclSpec = IF IndexOf(lineContent, <<";">>) >= 0 THEN None ELSE sr,
             !.globalDeclOffset = IF IndexOf(lineContent, <<";">>) >= 0 THEN 0 ELSE sr.position,
             !.globalDeclLine = IF IndexOf(lineContent, <<";">>) >= 0 THEN 0 - 1 ELSE lineIndex]

\* a line with both parentheses: a callable when callableRegex matches at
\* index 0
CallableLine(st, lineContent, lineIndex, skipStatic) ==
  LET Matched(matches) ==
        IF matches = None THEN st
        ELSE IF skipStatic /\ IndexOf(matches.specifiers, KwStatic) >= 0 THEN st
        ELSE [st EXCEPT
                !.callables = @ \o
                  <<[identifier |-> matches.identifier, isMacro |-> FALSE,
                     line |-> lineIndex, start |-> 0, end |-> matches.length,
                     parameters |-> Parameters(matches.arguments),
                     documentaton |-> st.docComment]>>,
                !.docComment = <<>>]
  IN Matched(MatchCallable(lineContent))

\* the value detection of a line that is no callable
ValueLine(st, lineContent, lineIndex, skipStatic) ==
  LET Pushed(st1, sr, symbol, tr) ==
        [st1 EXCEPT !.values = @ \o
           <<[identifier |-> symbol, isConst |-> sr.isConst,
              assignedValue |-> IF sr.isConst THEN SimpleValue(ExtractAssignedValue(lineContent))
                                ELSE None,
              isEnumMember |-> FALSE, isEnumType |-> FALSE, enumGroup |-> None,
              line |-> lineIndex, start |-> 0, end |-> tr.position,
              documentaton |-> st.docComment]>>]
      Retagged(sr, symbol, contentIndex, tr) ==
        IF tr.token # <<>> THEN Pushed(st, sr, tr.token, tr)
        ELSE Pushed([st EXCEPT !.diagnostics = @ \o
                       <<Diagnostic(ExpectedIdentifier, lineIndex, contentIndex + 1, tr.position)>>],
                    sr, symbol, tr)
      Tagged(sr, tr, contentIndex) ==
        IF tr.position # Len(lineContent) /\ CharAt(lineContent, contentIndex) = ":"
        THEN Retagged(sr, tr.token, contentIndex, ReadIdentifier(lineContent, contentIndex + 1))
        ELSE Pushed(st, sr, tr.token, tr)
      Named(sr, tr) ==
        IF tr.token = <<>>
        THEN [st EXCEPT !.diagnostics = @ \o
                <<Diagnostic(ExpectedIdentifier, lineIndex, sr.position, tr.position)>>]
        ELSE Tagged(sr, tr, SkipSpaces(lineContent, tr.position))
      Specified(sr) ==
        IF sr.wrongCombination
        THEN [st EXCEPT !.diagnostics = @ \o
                <<Diagnostic(InvalidSpecifiers, lineIndex, 0, sr.position)>>]
        ELSE IF skipStatic /\ sr.isStatic THEN st
        ELSE Named(sr, ReadIdentifier(lineContent, sr.position))
      Read(tr) ==
        IF tr.position = Len(lineContent) \/ tr.token \notin SpecifierWords THEN st
        ELSE Specified(ReadSpecicifers(lineContent, tr.position, tr.token))
  IN Read(ReadIdentifier(lineContent, 0))

\* a line of the global scope that is no preprocessor directive
GlobalLine(st, lineContent, rawLine, lineIndex, depthAfter, skipStatic) ==
  IF Substring(lineContent, 0, 4) = KwEnum
  THEN EnumStart(st, lineContent, rawLine, lineIndex, depthAfter)
  ELSE IF ListSpecifiers(lineContent) # None
  THEN ListStart(st, lineContent, rawLine, lineIndex, ListSpecifiers(lineContent))
  ELSE IF IndexOf(lineContent, <<"(">>) >= 0 /\ IndexOf(lineContent, <<")">>) >= 0
  THEN CallableLine(st, lineContent, lineIndex, skipStatic)
  ELSE ValueLine(st, lineContent, lineIndex, skipStatic)

\* the body of lines.forEach after the comments are handled, for a
\* non-empty lineContent
CodeLine(st, lineContent, rawLine, lineIndex, depthAfter, skipStatic) ==
  IF depthAfter < 0 THEN ReportUnmatched(st, lineContent, lineIndex, Len(lineContent) - 1)
  ELSE IF st.inEnum
  THEN EnumLine([st EXCEPT !.bracketDepth = depthAfter], lineContent, rawLine, lineIndex, depthAfter)
  ELSE IF st.bracketDepth > 0 THEN [st EXCEPT !.bracketDepth = depthAfter]
  ELSE IF Substring(lineContent, 0, 6) = KwReturn THEN [st EXCEPT !.bracketDepth = depthAfter]
  ELSE IF st.inGlobalDecl
  THEN GlobalDeclLine([st EXCEPT !.bracketDepth = depthAfter], lineContent, rawLine, lineIndex)
  ELSE IF CharAt(lineContent, 0) = "#"
  THEN PreprocessorLine([st EXCEPT !.bracketDepth = depthAfter], lineContent, lineIndex)
  ELSE GlobalLine([st EXCEPT !.bracketDepth = depthAfter], lineContent, rawLine, lineIndex,
                  depthAfter, skipStatic)

\* the body of lines.forEach for one line
ParseLine(st, rawLine, lineIndex, skipStatic) ==
  LET Commented(cr) ==
        IF ~cr.done THEN [st EXCEPT !.done = FALSE]
        ELSE IF Len(cr.content) = 0
        THEN [st EXCEPT !.inComment = cr.inComment, !.docComment = cr.docComment]
        ELSE CodeLine([st EXCEPT !.inComment = cr.inComment, !.docComment = cr.docComment],
                      cr.content, rawLine, lineIndex,
                      st.bracketDepth + HandleBracketDepth(cr.content), skipStatic)
  IN IF ~st.done \/ Len(Trim(rawLine)) = 0 THEN st
     ELSE Commented(HandleComments(Trim(rawLine), st.inComment, st.docComment))

RECURSIVE ParseLines(_, _, _, _)
\* lines.forEach from the line of index lineIndex on
ParseLines(st, lines, lineIndex, skipStatic) ==
  IF lineIndex >= Len(lines) THEN st
  ELSE ParseLines(ParseLine(st, lines[lineIndex + 1], lineIndex, skipStatic), lines,
                  lineIndex + 1, skipStatic)

\* parse(fileUri, content, skipStatic), content being given as its lines
\* and docComment being the module's buffer at the call: the results, the
\* buffer as the call leaves it, and whether the call returned
ParseContent(lines, skipStatic, docComment) ==
  LET Result(st) ==
        [values |-> st.values, callables |-> st.callables, diagnostics |-> st.diagnostics,
         headerInclusions |-> st.headerInclusions, bracketDepth |-> st.bracketDepth,
         docComment |-> st.docComment, done |-> st.done]
  IN Result(ParseLines(StartOfParse(docComment), lines, 0, skipStatic))

\* ---------------------------------------------------------------- scanning texts
\* Scanner calls are checked on their own: a text is scanned by a process
\* that has scanned nothing before, and a second text is scanned after it,
\* with the doc-comment buffer of the module as the first call left it.
MaxLineLen == 5

MaxNameLen == 2

ScanAlphabet == {"/", "*", "a", "}"}

NameAlphabet == {"x", "y"}

\* every line of at most n characters of the alphabet
LinesUpTo(alphabet, n) == UNION {[1..k -> alphabet] : k \in 0..n}

Names == LinesUpTo(NameAlphabet, MaxNameLen) \ {<<>>}

NewDecl(n) == <<KwNew \o <<" ">> \o n \o <<";">>>>

ConstDecl(n) == <<KwConst \o <<" ">> \o n \o <<" ", "=", " ", "5", ";">>>>

PublicDecl(n) == <<KwPublic \o <<" ">> \o n \o <<"(", "a", ",", " ", "b", ")">>>>

DeclTexts == {NewDecl(n) : n \in Names} \cup {ConstDecl(n) : n \in Names}
               \cup {PublicDecl(n) : n \in Names}

\* texts whose braces pair up
BalancedTexts ==
  {<<>>,
   <<<<"{", "}">>>>,
   <<<<"a", "b", "(", ")", " ", "{">>, <<"}">>>>,
   <<<<"a", "b", "(", ")">>, <<"{">>, <<"{", "}">>, <<"}">>>>}

\* lines with one closing brace and no other brace
ExtraBraceLines == {<<"}">>, <<"a", "}">>, <<"}", " ", "a">>, <<"a", " ", "}", " ", "a">>}

ExtraBraceTexts == {b \o <<e>> : b \in BalancedTexts, e \in ExtraBraceLines}

GlobalG == KwNew \o <<" ", "g", ";">>

\* texts whose only braces are in a string literal or in a comment, and
\* that declare the global g after them
HiddenBraceTexts ==
  {<<KwConst \o <<" ", "s", " ", "=", " ", "\"", "{", "\"", ";">>, GlobalG>>,
   <<KwConst \o <<" ", "s", " ", "=", " ", "\"", "}", "\"", ";">>, GlobalG>>,
   <<<<"/", "*", " ", "{", " ", "*", "/">>, GlobalG>>,
   <<<<"/", "/", " ", "{">>, GlobalG>>,
   <<<<"/", "*">>, <<"{">>, <<"*", "/">>, GlobalG>>}

EnumFoo == KwEnum \o <<" ", "F", "o", "o">>

\* the enumeration Foo with the members A, B and C = 5
EnumTexts ==
  {<<EnumFoo \o <<" ", "{", " ", "A", ",", " ", "B", ",", " ", "C", " ", "=", " ", "5", " ", "}">>>>,
   <<EnumFoo \o <<" ", "{">>, <<"A", ",">>, <<"B", ",">>, <<"C", " ", "=", " ", "5">>, <<"}">>>>,
   <<EnumFoo, <<"{">>, <<"A", ",", " ", "B", ",">>, <<"C", " ", "=", " ", "5">>, <<"}">>>>}

ScanTexts ==
  {<<l>> : l \in LinesUpTo(ScanAlphabet, MaxLineLen)}
    \cup DeclTexts \cup BalancedTexts \cup {a \o b : a, b \in BalancedTexts}
    \cup ExtraBraceTexts \cup HiddenBraceTexts \cup EnumTexts

\* the texts scanned second
NextTexts == {NewDecl(<<"x">>), <<<<"a", "b", "(", ")">>>>}

Scans ==
  [state : {"asked"}, text : ScanTexts, skipStatic : BOOLEAN, next : NextTexts,
   result : {None}, again : {None}]

\* the server at rest, as the query specifications keep it
ServerAtRest ==
  /\ fs = Disk(<<>>, <<>>, FALSE, FALSE)
  /\ includePaths = <<>>
  /\ openDocs = <<>>
  /\ docText = EmptyFn
  /\ documentsData = EmptyFn
  /\ registry = EmptyFn
  /\ dependenciesData = EmptyFn
  /\ timers = [u \in Docs |-> [live |-> 0, stale |-> 0]]
  /\ last = Outcome("init", Here)

InitScan == ServerAtRest /\ query \in Scans

\* Parser.parse on the text, by a process whose buffer is still empty
Scan ==
  /\ query.state = "asked"
  /\ query' = [query EXCEPT !.state = "scanned",
                 !.result = ParseContent(query.text, query.skipStatic, <<>>)]
  /\ UNCHANGED <<fs, includePaths, openDocs, docText, documentsData,
                 registry, dependenciesData, timers, last>>

\* Parser.parse on the next text, after the first call returned
ScanNext ==
  /\ query.state = "scanned"
  /\ query.result.done
  /\ query' = [query EXCEPT !.state = "rescanned",
                 !.again = ParseContent(query.next, query.skipStatic, query.result.docComment)]
  /\ UNCHANGED <<fs, includePaths, openDocs, docText, documentsData,
                 registry, dependenciesData, timers, last>>

NextScan == Scan \/ ScanNext

SpecScan == InitScan /\ [][NextScan]_vars

Scanned == query.state \in {"scanned", "rescanned"}

\* C11: the scanner returns a ParseResult for every text: no call fails to
\* return, whatever the comment markers, braces and directives of the text
C11_ScannerReturns == Scanned => query.result.done

\* C12: the result of scanning a text does not depend on what was scanned
\* before it: the second call returns what a first call on the same text
\* returns, and its first declaration carries no documentation of the
\* text scanned before
C12_ScannerIsPure ==
  query.state = "rescanned" =>
    /\ query.again = ParseContent(query.next, query.skipStatic, <<>>)
    /\ \A i \in 1..Len(query.again.values) : query.again.values[i].documentaton = <<>>
    /\ \A i \in 1..Len(query.again.callables) : query.again.callables[i].documentaton = <<>>

\* the symbols of a result: the values and the callables, as their
\* identifier and the columns of their range
Ranges(result) ==
  [i \in 1..Len(result.values) |->
     <<result.values[i].identifier, result.values[i].start, result.values[i].end>>]
  \o [i \in 1..Len(result.callables) |->
     <<result.callables[i].identifier, result.callables[i].start, result.callables[i].end>>]

\* C13: a well-formed single-line declaration `new x;`, `const y = 5;` or
\* `public Foo(a, b)` yields exactly one symbol, whose identifier is the
\* declared name and whose range is the identifier token, for every name
\* of one character or more
C13_OneSymbolPerDeclaration ==
  Scanned =>
    \A n \in Names :
      /\ query.text = NewDecl(n) => Ranges(query.result) = <<<<n, 4, 4 + Len(n)>>>>
      /\ query.text = ConstDecl(n) => Ranges(query.result) = <<<<n, 6, 6 + Len(n)>>>>
      /\ query.text = PublicDecl(n) => Ranges(query.result) = <<<<n, 7, 7 + Len(n)>>>>

\* C14: a balanced text followed by a line with one extra closing brace
\* yields exactly one 'Unmatched closing brace' diagnostic, on the single
\* character of that brace
C14_UnmatchedBraceReported ==
  Scanned =>
    \A b \in BalancedTexts, e \in ExtraBraceLines :
      query.text = b \o <<e>> =>
        query.result.diagnostics =
          <<Diagnostic(UnmatchedBrace, Len(b), IndexOf(e, <<"}">>), IndexOf(e, <<"}">>) + 1)>>

\* C15: braces in comments and in string literals do not move the depth
\* counter: it is 0 after a balanced text, after two balanced texts in a
\* row and after a text whose only braces are hidden, and the global
\* declared after a hidden brace is recorded
C15_DepthCountsCodeBraces ==
  Scanned =>
    /\ query.text \in BalancedTexts \cup {a \o b : a, b \in BalancedTexts} \cup HiddenBraceTexts
         => query.result.bracketDepth = 0
    /\ query.text \in HiddenBraceTexts
         => \E i \in 1..Len(query.result.values) : query.result.values[i].identifier = <<"g">>

IsEnumMember(v) == v.isEnumMember

\* C16: the enumeration Foo with the members A, B and C = 5, on one line
\* or on several, yields exactly these three values as enum members, in
\* this order, with enumGroup Foo, and C carries the literal 5
C16_EnumMembers ==
  Scanned /\ query.text \in EnumTexts =>
    LET members == SelectSeq(query.result.values, IsEnumMember)
    IN /\ [i \in 1..Len(members) |-> members[i].identifier] = <<<<"A">>, <<"B">>, <<"C">>>>
       /\ \A i \in 1..Len(members) : members[i].enumGroup = <<"F", "o", "o">>
       /\ \A i \in 1..Len(members) :
            members[i].identifier = <<"C">> => members[i].assignedValue = <<"5">>

\* ---------------------------------------------------------------- the resolver
\* A content is the text of a document as one string, its lines separated
\* by NewLine; a position is a line and a character, both from 0.
Position(line, character) == [line |-> line, character |-> character]

RECURSIVE IndexWalk(_, _, _, _)
\* the loop of positionToIndex at the given line and index. Past the end
\* of the content no character is a newline, so line stays what it is and
\* the loop goes on for ever: the call does not return (done is FALSE)
IndexWalk(content, position, line, index) ==
  IF line = position.line THEN [done |-> TRUE, index |-> index + position.character]
  ELSE IF index >= Len(content) THEN [done |-> FALSE, index |-> index]
  ELSE IndexWalk(content, position,
                 IF CharAt(content, index) = NewLine THEN line + 1 ELSE line, index + 1)

\* positionToIndex(content, position)
PositionToIndex(content, position) == IndexWalk(content, position, 0, 0)

RECURSIVE IndexToPositionFrom(_, _, _, _, _)
\* the for loop of indexToPosition from i on
IndexToPositionFrom(text, idx, i, line, ch) ==
  IF ~(i < idx /\ i < Len(text)) THEN Position(line, ch)
  ELSE IF CharAt(text, i) = NewLine THEN IndexToPositionFrom(text, idx, i + 1, line + 1, 0)
  ELSE IndexToPositionFrom(text, idx, i + 1, line, ch + 1)

\* indexToPosition(text, idx)
IndexToPosition(text, idx) == IndexToPositionFrom(text, idx, 0, 0, 0)

RECURSIVE SplitLines(_, _, _)
\* content.split(/\r?\n/) from index i on, start being where the line began
SplitLines(content, i, start) ==
  IF i >= Len(content) THEN <<SubstringFrom(content, start)>>
  ELSE IF CharAt(content, i) = NewLine
  THEN <<Substring(content, start, i)>> \o SplitLines(content, i + 1, i + 1)
  ELSE SplitLines(content, i + 1, start)

\* StringHelpers.reverse
Reverse(s) == [i \in 1..Len(s) |-> s[Len(s) + 1 - i]]

RECURSIVE SkipDigits(_, _)
SkipDigits(s, i) == IF i < Len(s) /\ IsDigit(CharAt(s, i)) THEN SkipDigits(s, i + 1) ELSE i

\* normalizeIdentifier(identifier)
NormalizeIdentifier(identifier) == SubstringFrom(identifier, SkipDigits(identifier, 0))

RECURSIVE AlphaNumLeft(_, _)
\* the first index from index down whose character isAlphaNum rejects, -1
\* when there is none
AlphaNumLeft(content, index) ==
  IF index >= 0 /\ IsAlphaNum(CharAt(content, index)) THEN AlphaNumLeft(content, index - 1)
  ELSE index

\* findIdentifierBehindCursor(content, cursorIndex)
FindIdentifierBehindCursor(content, cursorIndex) ==
  IF AlphaNumLeft(content, cursorIndex - 1) >= 0
  THEN NormalizeIdentifier(Substring(content, AlphaNumLeft(content, cursorIndex - 1) + 1, cursorIndex))
  ELSE <<>>

\* findIdentifierAtCursor(content, cursorIndex)
FindIdentifierAtCursor(content, cursorIndex) ==
  LET \* the left side is reversed only when the loop meets a character
      \* that ends the identifier
      LeftSide(left) ==
        IF left >= 0 THEN Substring(content, left + 1, cursorIndex + 1)
        ELSE Reverse(Substring(content, 0, cursorIndex + 1))
      Found(left, right) ==
        [identifier |->
           NormalizeIdentifier(LeftSide(left) \o
             (IF cursorIndex # Len(content) - 1 THEN Substring(content, cursorIndex + 1, right)
              ELSE <<>>)),
         isCallable |-> /\ cursorIndex # Len(content) - 1
                        /\ right < Len(content)
                        /\ CharAt(content, SkipSpaces(content, right)) = "("]
  IN IF \/ ~IsAlphaNum(CharAt(content, cursorIndex))
        \/ cursorIndex = 0 /\ IsDigit(CharAt(content, cursorIndex))
        \/ /\ cursorIndex > 0 /\ IsDigit(CharAt(content, cursorIndex))
           /\ IsWhitespace(CharAt(content, cursorIndex - 1))
     THEN [identifier |-> <<>>, isCallable |-> FALSE]
     ELSE Found(AlphaNumLeft(content, cursorIndex), SkipAlphaNum(content, cursorIndex + 1))

\* getIdentifierAtOrBehindCursor(content, cursorIndex)
GetIdentifierAtOrBehindCursor(content, cursorIndex) ==
  IF FindIdentifierAtCursor(content, cursorIndex).identifier # <<>>
  THEN FindIdentifierAtCursor(content, cursorIndex)
  ELSE IF FindIdentifierBehindCursor(content, cursorIndex) = <<>>
  THEN [identifier |-> <<>>, isCallable |-> FALSE]
  ELSE [identifier |-> FindIdentifierBehindCursor(content, cursorIndex),
        isCallable |-> CharAt(content, SkipSpaces(content, cursorIndex)) = "("]

\* isIdentChar of findIdentifierInsideStringLiteral: /[A-Za-z0-9_@]/
IsIdentChar(ch) == ch \in Letters \cup Digits \cup {"_", "@"}

RECURSIVE QuoteLeft(_, _)
\* the nearest quote or newline from left down, -1 when there is none
QuoteLeft(content, left) ==
  IF left >= 0 /\ CharAt(content, left) # "\"" /\ CharAt(content, left) # NewLine
  THEN QuoteLeft(content, left - 1) ELSE left

RECURSIVE QuoteRight(_, _)
QuoteRight(content, right) ==
  IF right < Len(content) /\ CharAt(content, right) # "\"" /\ CharAt(content, right) # NewLine
  THEN QuoteRight(content, right + 1) ELSE right

RECURSIVE IdentStart(_, _)
IdentStart(inside, start) ==
  IF start > 0 /\ IsIdentChar(CharAt(inside, start - 1)) THEN IdentStart(inside, start - 1)
  ELSE start

RECURSIVE IdentEnd(_, _)
IdentEnd(inside, end) ==
  IF end < Len(inside) /\ IsIdentChar(CharAt(inside, end)) THEN IdentEnd(inside, end + 1) ELSE end

\* findIdentifierInsideStringLiteral(content, cursorIndex): the token, or
\* none
FindIdentifierInsideStringLiteral(content, cursorIndex) ==
  LET Token(token) == IF token = <<>> \/ IsDigit(token[1]) THEN None ELSE token
      Inside(inside, rel) ==
        IF rel < 0 \/ rel >= Len(inside) THEN None
        ELSE Token(Substring(inside, IdentStart(inside, rel), IdentEnd(inside, rel)))
      Between(left, right) ==
        IF \/ left < 0 \/ CharAt(content, left) # "\""
           \/ right >= Len(content) \/ CharAt(content, right) # "\""
           \/ cursorIndex <= left \/ cursorIndex >= right
        THEN None
        ELSE Inside(Substring(content, left + 1, right), cursorIndex - (left + 1))
  IN IF cursorIndex < 0 \/ cursorIndex >= Len(content) THEN None
     ELSE Between(QuoteLeft(content, cursorIndex), QuoteRight(content, cursorIndex))

\* getIdentifierForReferences(content, position), for a cursor index
IdentifierForReferences(content, cursorIndex) ==
  IF FindIdentifierInsideStringLiteral(content, cursorIndex) # None
  THEN FindIdentifierInsideStringLiteral(content, cursorIndex)
  ELSE GetIdentifierAtOrBehindCursor(content, cursorIndex).identifier

\* the regular-expression assertion \b at index i of text
WordBoundary(text, i) == IsWord(CharAt(text, i - 1)) # IsWord(CharAt(text, i))

Location(uri, start, end) == [uri |-> uri, start |-> start, end |-> end]

RECURSIVE WordMatches(_, _, _)
\* the indexes at which successive re.exec calls match \b<identifier>\b in
\* text, lastIndex being from
WordMatches(text, identifier, from) ==
  LET Hit(i) == /\ OccursAt(text, identifier, i)
                /\ WordBoundary(text, i) /\ WordBoundary(text, i + Len(identifier))
      First(i) == <<i>> \o WordMatches(text, identifier, i + Len(identifier))
  IN IF \E i \in from..Len(text) : Hit(i)
     THEN First(CHOOSE i \in from..Len(text) : Hit(i) /\ \A j \in from..(i - 1) : ~Hit(j))
     ELSE <<>>

\* findAllWordOccurrences(uri, text, identifier)
FindAllWordOccurrences(uri, text, identifier) ==
  LET At(ms) == [k \in 1..Len(ms) |->
                   Location(uri, IndexToPosition(text, ms[k]),
                            IndexToPosition(text, ms[k] + Len(identifier)))]
  IN At(WordMatches(text, identifier, 0))

RECURSIVE PatternMatches(_, _, _)
\* the indexes at which successive re.exec calls match the literal pat
PatternMatches(text, pat, from) ==
  IF IndexOfFrom(text, pat, from) >= 0 /\ from <= Len(text)
  THEN <<IndexOfFrom(text, pat, from)>>
         \o PatternMatches(text, pat, IndexOfFrom(text, pat, from) + Len(pat))
  ELSE <<>>

\* findAllStringOccurrences(uri, text, identifier)
FindAllStringOccurrences(uri, text, identifier) ==
  LET At(ms) == [k \in 1..Len(ms) |->
                   Location(uri, IndexToPosition(text, ms[k] + 1),
                            IndexToPosition(text, ms[k] + 1 + Len(identifier)))]
  IN At(PatternMatches(text, <<"\"">> \o identifier \o <<"\"">>, 0))

RECURSIVE DedupeLocations(_)
\* dedupeLocations(locs): the first of every (uri, range) is kept
DedupeLocations(locs) ==
  IF locs = <<>> THEN <<>>
  ELSE LET rest == DedupeLocations(SubSeq(locs, 1, Len(locs) - 1))
       IN IF \E k \in 1..(Len(locs) - 1) : locs[k] = locs[Len(locs)] THEN rest
          ELSE Append(rest, locs[Len(locs)])

\* doReferences(content, position, uri, data, dependenciesData): the
\* canonical callable identifier is the identifier itself, so the symbols
\* do not bear on the result
DoReferences(content, position, uri) ==
  LET Of(identifier) ==
        IF identifier = <<>> THEN <<>>
        ELSE DedupeLocations(FindAllWordOccurrences(uri, content, identifier)
                               \o FindAllStringOccurrences(uri, content, identifier))
      At(cursor) ==
        IF ~cursor.done THEN [done |-> FALSE, kind |-> "none", locations |-> <<>>]
        ELSE [done |-> TRUE, kind |-> "list",
              locations |-> Of(IdentifierForReferences(content, cursor.index))]
  IN At(PositionToIndex(content, position))

\* ---------------------------------------------------------------- go to definition
\* one round of the for loop of computeLineDepths at index i: the index
\* the next round starts at, the depth, the mode ("code", or "line" for
\* inLineComment, "block" for inBlockComment, "string" for inString), and
\* the depths recorded so far
DepthStep(content, st) ==
  LET ch == CharAt(content, st.i)
      next == CharAt(content, st.i + 1)
      Go(by, depth, mode, counted) ==
        [i |-> st.i + by, depth |-> depth, mode |-> mode,
         depths |-> IF counted THEN Append(st.depths, depth) ELSE st.depths]
  IN CASE st.mode = "line" ->
            IF ch = NewLine THEN Go(1, st.depth, "code", TRUE) ELSE Go(1, st.depth, "line", FALSE)
       [] st.mode = "block" ->
            IF ch = "*" /\ next = "/" THEN Go(2, st.depth, "code", FALSE)
            ELSE Go(1, st.depth, "block", FALSE)
       [] st.mode = "string" ->
            IF ch = "\"" /\ ~IsEscapedQuote(content, st.i) THEN Go(1, st.depth, "code", FALSE)
            ELSE Go(1, st.depth, "string", ch = NewLine)
       [] OTHER ->
            IF ch = "/" /\ next = "/" THEN Go(2, st.depth, "line", FALSE)
            ELSE IF ch = "/" /\ next = "*" THEN Go(2, st.depth, "block", FALSE)
            ELSE IF ch = "\"" /\ ~IsEscapedQuote(content, st.i) THEN Go(1, st.depth, "string", FALSE)
            ELSE IF ch = "{" THEN Go(1, st.depth + 1, "code", FALSE)
            ELSE IF ch = "}" THEN Go(1, Max(0, st.depth - 1), "code", FALSE)
            ELSE Go(1, st.depth, "code", ch = NewLine)

RECURSIVE DepthsFrom(_, _)
\* the for loop of computeLineDepths
DepthsFrom(content, st) ==
  IF st.i >= Len(content) THEN st.depths ELSE DepthsFrom(content, DepthStep(content, st))

\* computeLineDepths(content)
ComputeLineDepths(content) ==
  DepthsFrom(content, [i |-> 0, depth |-> 0, mode |-> "code", depths |-> <<0>>])

\* depthAtLine[line] ?? 0
DepthAt(depths, line) == IF line >= 0 /\ line < Len(depths) THEN depths[line + 1] ELSE 0

\* lines[line] ?? ''
LineAt(lines, line) == IF line >= 0 /\ line < Len(lines) THEN lines[line + 1] ELSE <<>>

Range(line, start, end) == [line |-> line, start |-> start, end |-> end]

\* the candidate of findLocalParameterRange: the first of the callables
\* that start latest among those that start on the line or above it, 0
\* when there is none
Candidate(callables, line) ==
  IF \E k \in 1..Len(callables) : callables[k].line <= line
  THEN CHOOSE k \in 1..Len(callables) :
         /\ callables[k].line <= line
         /\ \A j \in 1..Len(callables) :
              callables[j].line <= line =>
                \/ callables[j].line < callables[k].line
                \/ callables[j].line = callables[k].line /\ j >= k
  ELSE 0

\* findLocalParameterRange(content, position, identifier, callables): the
\* range, or none
FindLocalParameterRange(content, position, identifier, callables) ==
  LET After(line, matches, parenIdx) ==
        IF parenIdx >= 0 /\ \E k \in 1..Len(matches) : matches[k] > parenIdx
        THEN Range(line,
                   matches[CHOOSE k \in 1..Len(matches) :
                             matches[k] > parenIdx /\ \A j \in 1..(k - 1) : ~(matches[j] > parenIdx)],
                   matches[CHOOSE k \in 1..Len(matches) :
                             matches[k] > parenIdx /\ \A j \in 1..(k - 1) : ~(matches[j] > parenIdx)]
                     + Len(identifier))
        ELSE None
      In(line, text) == After(line, WordMatches(text, identifier, 0), IndexOf(text, <<"(">>))
      Of(lines, candidate) ==
        IF candidate = 0 THEN None
        ELSE In(callables[candidate].line, LineAt(lines, callables[candidate].line))
      Within(lines) ==
        IF \/ position.line < 0 \/ position.line >= Len(lines)
           \/ DepthAt(ComputeLineDepths(content), position.line) <= 0
        THEN None
        ELSE Of(lines, Candidate(callables, position.line))
  IN Within(SplitLines(content, 0, 0))

DeclWords == {KwNew, KwConst, KwStatic, KwStock}

\* /\b(new|const|static|stock)\b/.test(line)
HasDeclWord(line) == \E w \in DeclWords : WordMatches(line, w, 0) # <<>>

RECURSIVE SpecifiersEnd(_, _)
\* (?:(?:new|const|static|stock|public)\b\s*)* from index i on
SpecifiersEnd(line, i) ==
  IF \E w \in DeclWords \cup {KwPublic} :
       OccursAt(line, w, i) /\ WordBoundary(line, i + Len(w))
  THEN SpecifiersEnd(line,
         SkipSpaces(line, i + Len(CHOOSE w \in DeclWords \cup {KwPublic} :
                                    OccursAt(line, w, i) /\ WordBoundary(line, i + Len(w)))))
  ELSE i

\* stripDeclSpecifiers(line)
StripDeclSpecifiers(line) ==
  IF SpecifiersEnd(line, SkipSpaces(line, 0)) > SkipSpaces(line, 0)
  THEN SubstringFrom(line, SpecifiersEnd(line, SkipSpaces(line, 0)))
  ELSE line

RECURSIVE DeclaredFrom(_, _, _, _, _)
\* the loop over lineNoSpec.split(',') of findDeclaredIdentifierRange, for
\* the part that starts at index start of text and is looked through from
\* index i on, offset being the column of that part
DeclaredFrom(text, identifier, i, start, offset) ==
  LET Part(part) ==
        IF /\ Len(Trim(part)) > 0
           /\ MatchTaggedName(Trim(part)) # None
           /\ MatchTaggedName(Trim(part)).identifier = identifier
        THEN [start |-> IF IndexOf(part, identifier) >= 0 THEN offset + IndexOf(part, identifier)
                        ELSE offset,
              end |-> (IF IndexOf(part, identifier) >= 0 THEN offset + IndexOf(part, identifier)
                       ELSE offset) + Len(identifier)]
        ELSE IF i >= Len(text) THEN None
        ELSE DeclaredFrom(text, identifier, i + 1, i + 1, offset + Len(part) + 1)
  IN IF i >= Len(text) \/ CharAt(text, i) = "," THEN Part(Substring(text, start, i))
     ELSE DeclaredFrom(text, identifier, i + 1, start, offset)

\* findDeclaredIdentifierRange(line, identifier)
FindDeclaredIdentifierRange(line, identifier) ==
  DeclaredFrom(StripDeclSpecifiers(line), identifier, 0, 0,
               Max(0, IndexOf(line, StripDeclSpecifiers(line))))

\* the line findLocalValueRange looks at: cut at the first //
Uncommented(line) ==
  IF IndexOf(line, LineComment) >= 0 THEN Substring(line, 0, IndexOf(line, LineComment)) ELSE line

RECURSIVE BlockLines(_, _, _, _, _, _, _)
\* the loop of findLocalValueRange over the lines lineIndex..blockEnd of a
\* block at targetDepth
BlockLines(lines, depths, identifier, targetDepth, lineIndex, blockEnd, inDecl) ==
  LET DeclaredOn(line, decl) ==
        IF decl /\ FindDeclaredIdentifierRange(line, identifier) # None
        THEN Range(lineIndex, FindDeclaredIdentifierRange(line, identifier).start,
                   FindDeclaredIdentifierRange(line, identifier).end)
        ELSE BlockLines(lines, depths, identifier, targetDepth, lineIndex + 1, blockEnd,
                        decl /\ ~(IndexOf(line, <<";">>) >= 0))
      Looked(line) ==
        IF Len(Trim(line)) = 0
        THEN BlockLines(lines, depths, identifier, targetDepth, lineIndex + 1, blockEnd, inDecl)
        ELSE DeclaredOn(line, inDecl \/ HasDeclWord(line))
  IN IF lineIndex > blockEnd THEN None
     ELSE IF DepthAt(depths, lineIndex) # targetDepth
     THEN BlockLines(lines, depths, identifier, targetDepth, lineIndex + 1, blockEnd, FALSE)
     ELSE Looked(Uncommented(LineAt(lines, lineIndex)))

RECURSIVE BlockStart(_, _, _)
BlockStart(depths, targetDepth, blockStart) ==
  IF blockStart >= 0 /\ DepthAt(depths, blockStart) >= targetDepth
  THEN BlockStart(depths, targetDepth, blockStart - 1)
  ELSE Max(0, blockStart + 1)

RECURSIVE BlockEnd(_, _, _, _)
BlockEnd(lines, depths, targetDepth, blockEnd) ==
  IF blockEnd < Len(lines) /\ DepthAt(depths, blockEnd) >= targetDepth
  THEN BlockEnd(lines, depths, targetDepth, blockEnd + 1)
  ELSE Min(Len(lines) - 1, blockEnd - 1)

RECURSIVE ValueAtDepth(_, _, _, _, _)
\* the loop of findLocalValueRange over targetDepth, from the depth of the
\* line of the position down to 1
ValueAtDepth(lines, depths, position, identifier, targetDepth) ==
  LET Ranged(range) ==
        IF range # None THEN range
        ELSE ValueAtDepth(lines, depths, position, identifier, targetDepth - 1)
  IN IF targetDepth <= 0 THEN None
     ELSE Ranged(BlockLines(lines, depths, identifier, targetDepth,
                           BlockStart(depths, targetDepth, position.line),
                           BlockEnd(lines, depths, targetDepth, position.line), FALSE))

\* findLocalValueRange(content, position, identifier)
FindLocalValueRange(content, position, identifier) ==
  LET Within(lines, depths) ==
        IF position.line < 0 \/ position.line >= Len(lines) THEN None
        ELSE ValueAtDepth(lines, depths, position, identifier, DepthAt(depths, position.line))
  IN Within(SplitLines(content, 0, 0), ComputeLineDepths(content))

\* the index of the first symbol of the sequence with the identifier, 0
\* when there is none
IndexOfIdentifier(symbols, identifier) ==
  IF \E k \in 1..Len(symbols) : symbols[k].identifier = identifier
  THEN CHOOSE k \in 1..Len(symbols) :
         symbols[k].identifier = identifier /\ \A j \in 1..(k - 1) : symbols[j].identifier # identifier
  ELSE 0

NoLocation == [done |-> TRUE, kind |-> "none", location |-> None]

Found(uri, line, start, end) ==
  [done |-> TRUE, kind |-> "location",
   location |-> Location(uri, Position(line, start), Position(line, end))]

SymbolLocation(symbol) == Found(symbol.file, symbol.line, symbol.start, symbol.end)

\* doDefinition(content, position, data, dependenciesData) from the cursor
\* index on, symbols being Helpers.getSymbols(data, dependenciesData)
DefinitionAt(content, position, cursorIndex, data, symbols) ==
  LET Local(range) ==
        IF position.line = range.line THEN NoLocation
        ELSE Found(data.uri, range.line, range.start, range.end)
      Value(index) ==
        IF index = 0 THEN NoLocation
        ELSE IF position.line = symbols.values[index].line THEN NoLocation
        ELSE SymbolLocation(symbols.values[index])
      Block(identifier, localRange) ==
        IF localRange # None THEN Local(localRange)
        ELSE Value(IndexOfIdentifier(symbols.values, identifier))
      Parameter(identifier, paramRange) ==
        IF paramRange # None THEN Local(paramRange)
        ELSE Block(identifier, FindLocalValueRange(content, position, identifier))
      Callable(index) ==
        IF index = 0 THEN NoLocation ELSE SymbolLocation(symbols.callables[index])
      Identifier(result) ==
        IF result.identifier = <<>> THEN NoLocation
        ELSE IF result.isCallable
        THEN Callable(IndexOfIdentifier(symbols.callables, result.identifier))
        ELSE Parameter(result.identifier,
                       FindLocalParameterRange(content, position, result.identifier,
                                               data.callables))
      InString(stringIdent) ==
        IF stringIdent # None /\ IndexOfIdentifier(symbols.callables, stringIdent) # 0
        THEN SymbolLocation(symbols.callables[IndexOfIdentifier(symbols.callables, stringIdent)])
        ELSE Identifier(GetIdentifierAtOrBehindCursor(content, cursorIndex))
  IN InString(FindIdentifierInsideStringLiteral(content, cursorIndex))

\* Parser.doDefinition(content, position, data, dependenciesData)
DoDefinition(content, position, data, symbols) ==
  IF ~PositionToIndex(content, position).done
  THEN [done |-> FALSE, kind |-> "none", location |-> None]
  ELSE DefinitionAt(content, position, PositionToIndex(content, position).index, data, symbols)

\* an inclusionLocation that looks at no inclusion
NoInclusionAt(inclusions, position) == 0

\* inclusionLocation(inclusions): the index of the first inclusion whose
\* descriptor holds the position, 0 when there is none
InclusionAt(inclusions, position) ==
  LET Holds(inc) == /\ position.line = inc.line
                    /\ position.character > inc.start
                    /\ position.character < inc.end
  IN IF \E k \in 1..Len(inclusions) : Holds(inclusions[k])
     THEN CHOOSE k \in 1..Len(inclusions) :
            Holds(inclusions[k]) /\ \A j \in 1..(k - 1) : ~Holds(inclusions[j])
     ELSE 0

\* the callable of the document declared where the position is, for the
\* identifier
IsOnCallableDecl(callables, identifier, position) ==
  \E k \in 1..Len(callables) :
    /\ callables[k].identifier = identifier
    /\ callables[k].line = position.line
    /\ position.character >= callables[k].start
    /\ position.character <= callables[k].end

\* connection.onDefinition(params), go to definition being enabled and the
\* document known: on a callable declaration the answer is the list of the
\* references to the callable, kept as its kind only
OnDefinition(content, position, data, symbols) ==
  LET Identified(identifier) ==
        IF identifier # <<>> /\ IsOnCallableDecl(data.callables, identifier, position)
        THEN [done |-> TRUE, kind |-> "references", location |-> None]
        ELSE DoDefinition(content, position, data, symbols)
      At(cursor) ==
        IF ~cursor.done THEN [done |-> FALSE, kind |-> "none", location |-> None]
        ELSE Identified(IdentifierForReferences(content, cursor.index))
  IN IF InclusionAt(data.resolvedInclusions, position) # 0
     THEN Found(data.resolvedInclusions[InclusionAt(data.resolvedInclusions, position)].uri, 0, 0, 1)
     ELSE At(PositionToIndex(content, position))

\* ---------------------------------------------------------------- resolver queries
\* Resolver calls are checked on their own: a document is scanned, and one
\* query is answered for a caret position of it, the lines past the last
\* one included.
MaxQueryLine == 8

MaxQueryChar == 12

DocUri == "doc"

DepUri == "dep"

IncUri == "inc"

\* a document with an inclusion, a global, and a callable with a
\* parameter, a local and a call that names a callable in a string
DefinitionLines ==
  <<<<"#", "i", "n", "c", "l", "u", "d", "e", " ", "<", "d", ">">>,
    <<"n", "e", "w", " ", "g", ";">>,
    <<"a", "b", "(", "p", ")">>,
    <<"{">>,
    <<"n", "e", "w", " ", "v", ";">>,
    <<"h", "k", "(", "\"", "a", "b", "\"", ")", ";">>,
    <<"v", " ", "=", " ", "p", " ", "+", " ", "g", ";">>,
    <<"}">>>>

\* a document with bare and quoted occurrences of @f and of f
ReferenceLines ==
  <<<<"@", "f", "(", ")">>,
    <<"h", "k", "(", "\"", "@", "f", "\"", ")", ";">>,
    <<"f", " ", "=", " ", "1", ";">>,
    <<"x", "f", " ", "=", " ", "f", ";">>>>

\* the dependency of both documents: it declares the callable hk
DependencyLines == <<<<"h", "k", "(", "a", ")">>>>

RECURSIVE JoinLines(_)
\* the content of a document given as its lines
JoinLines(lines) ==
  IF Len(lines) = 0 THEN <<>>
  ELSE IF Len(lines) = 1 THEN lines[1]
  ELSE lines[1] \o <<NewLine>> \o JoinLines(Tail(lines))

\* the callables and the values of a scanned file, each with its file
FileSymbols(file, result) ==
  [callables |-> [k \in 1..Len(result.callables) |->
                    [file |-> file, identifier |-> result.callables[k].identifier,
                     line |-> result.callables[k].line, start |-> result.callables[k].start,
                     end |-> result.callables[k].end]],
   values |-> [k \in 1..Len(result.values) |->
                 [file |-> file, identifier |-> result.values[k].identifier,
                  line |-> result.values[k].line, start |-> result.values[k].start,
                  end |-> result.values[k].end]]]

\* Helpers.getSymbols for a document with one dependency: the symbols of
\* the document, then those of the dependency
MergedSymbols(own, dependency) ==
  [callables |-> own.callables \o dependency.callables,
   values |-> own.values \o dependency.values]

QuerySymbols(lines) ==
  MergedSymbols(FileSymbols(DocUri, ParseContent(lines, FALSE, <<>>)),
                FileSymbols(DepUri, ParseContent(DependencyLines, TRUE, <<>>)))

\* the data parseFile keeps for the document: every inclusion resolves
QueryData(lines) ==
  LET Kept(result) ==
        [uri |-> DocUri, callables |-> result.callables,
         resolvedInclusions |->
           [k \in 1..Len(result.headerInclusions) |->
              [uri |-> IncUri, line |-> result.headerInclusions[k].line,
               start |-> result.headerInclusions[k].start,
               end |-> result.headerInclusions[k].end]]]
  IN Kept(ParseContent(lines, FALSE, <<>>))

Carets ==
  [state : {"asked"}, lines : {DefinitionLines, ReferenceLines},
   position : {Position(l, c) : l \in 0..MaxQueryLine, c \in 0..MaxQueryChar},
   result : {None}]

InitQuery == ServerAtRest /\ query \in Carets

\* a go to definition request
Definition ==
  /\ query.state = "asked"
  /\ query' = [query EXCEPT !.state = "defined",
                 !.result = OnDefinition(JoinLines(query.lines), query.position,
                                         QueryData(query.lines), QuerySymbols(query.lines))]
  /\ UNCHANGED <<fs, includePaths, openDocs, docText, documentsData,
                 registry, dependenciesData, timers, last>>

\* a find references request
References ==
  /\ query.state = "asked"
  /\ query' = [query EXCEPT !.state = "referred",
                 !.result = DoReferences(JoinLines(query.lines), query.position, DocUri)]
  /\ UNCHANGED <<fs, includePaths, openDocs, docText, documentsData,
                 registry, dependenciesData, timers, last>>

NextQuery == Definition \/ References

SpecQuery == InitQuery /\ [][NextQuery]_vars

\* C17: every resolver query returns a result for every text and every
\* caret position, a position past the last line included
C17_QueriesReturn == query.state \in {"defined", "referred"} => query.result.done

\* the indexes at which the identifier occurs in the content as a whole
\* token, its neighbours being no identifier characters
TokenOccurrences(content, identifier) ==
  {i \in 0..Len(content) :
     /\ OccursAt(content, identifier, i)
     /\ ~IsIdentChar(CharAt(content, i - 1))
     /\ ~IsIdentChar(CharAt(content, i + Len(identifier)))}

\* C18: reference search for the identifier at the caret returns one
\* location for each of its whole-token occurrences, bare or as the full
\* content of a quoted string, and no location twice
C18_ReferencesAreOccurrences ==
  query.state = "referred" /\ query.result.done =>
    LET content == JoinLines(query.lines)
        identifier == IdentifierForReferences(content,
                                              PositionToIndex(content, query.position).index)
        locations == query.result.locations
    IN identifier # <<>> =>
         /\ {locations[k] : k \in 1..Len(locations)} =
              {Location(DocUri, IndexToPosition(content, i),
                        IndexToPosition(content, i + Len(identifier))) :
                 i \in TokenOccurrences(content, identifier)}
         /\ \A j, k \in 1..Len(locations) : locations[j] = locations[k] => j = k

\* what a go to definition request is about: the cursor index, whether the
\* caret is in the span of an inclusion, the identifier of a string
\* literal around the caret, the identifier under or before the caret
CaretIndex == PositionToIndex(JoinLines(query.lines), query.position).index

InSpan ==
  \E k \in 1..Len(QueryData(query.lines).resolvedInclusions) :
    /\ QueryData(query.lines).resolvedInclusions[k].line = query.position.line
    /\ QueryData(query.lines).resolvedInclusions[k].start < query.position.character
    /\ query.position.character < QueryData(query.lines).resolvedInclusions[k].end

StringIdentifier == FindIdentifierInsideStringLiteral(JoinLines(query.lines), CaretIndex)

CaretIdentifier == GetIdentifierAtOrBehindCursor(JoinLines(query.lines), CaretIndex)

\* the string literal around the caret names a known callable
NamesCallable ==
  /\ StringIdentifier # None
  /\ \E k \in 1..Len(QuerySymbols(query.lines).callables) :
       QuerySymbols(query.lines).callables[k].identifier = StringIdentifier

\* the caret is on the declaration of a callable of the document
OnDeclaration ==
  /\ IdentifierForReferences(JoinLines(query.lines), CaretIndex) # <<>>
  /\ IsOnCallableDecl(QueryData(query.lines).callables,
                      IdentifierForReferences(JoinLines(query.lines), CaretIndex), query.position)

ParameterRange ==
  FindLocalParameterRange(JoinLines(query.lines), query.position, CaretIdentifier.identifier,
                          QueryData(query.lines).callables)

LocalRange == FindLocalValueRange(JoinLines(query.lines), query.position, CaretIdentifier.identifier)

\* the locations of the entries of the sequence of symbols with the name
Entries(symbols, identifier) ==
  {SymbolLocation(symbols[k]) : k \in {j \in 1..Len(symbols) : symbols[j].identifier = identifier}}

\* the answer for a range of the document: none on the line of the caret
Elsewhere(range) ==
  IF range.line = query.position.line THEN NoLocation
  ELSE Found(DocUri, range.line, range.start, range.end)

\* C19 as stated: (1) a caret in the span of an inclusion gives line 1 of
\* the target; (2) otherwise a string literal that names a known callable
\* gives that callable; (3) otherwise the identifier at the caret gives
\* its local parameter or block-scoped declaration when there is one, and
\* only when there is none its entry in the merged table of callables and
\* values
C19_DefinitionOrder ==
  query.state = "defined" /\ query.result.done =>
    /\ InSpan => query.result = Found(IncUri, 0, 0, 1)
    /\ ~InSpan /\ NamesCallable =>
         query.result \in Entries(QuerySymbols(query.lines).callables, StringIdentifier)
    /\ ~InSpan /\ ~NamesCallable /\ CaretIdentifier.identifier # <<>> =>
         IF ParameterRange # None
         THEN query.result = Found(DocUri, ParameterRange.line, ParameterRange.start,
                                   ParameterRange.end)
         ELSE IF LocalRange # None
         THEN query.result = Found(DocUri, LocalRange.line, LocalRange.start, LocalRange.end)
         ELSE IF Entries(QuerySymbols(query.lines).callables \o QuerySymbols(query.lines).values,
                         CaretIdentifier.identifier) # {}
         THEN query.result \in Entries(QuerySymbols(query.lines).callables
                                         \o QuerySymbols(query.lines).values,
                                       CaretIdentifier.identifier)
         ELSE query.result = NoLocation

\* C19 amended: (1) a caret in the span of an inclusion gives line 1 of
\* the target; (2) otherwise a caret on the declaration of a callable of
\* the document gives the references to it; (3) otherwise a string literal
\* that names a known callable gives that callable; (4) otherwise the
\* identifier at the caret, when an opening parenthesis follows it, gives
\* its entry among the callables and nothing else, and when none follows,
\* its local parameter, else its block-scoped declaration, else its entry
\* among the values, the first of these that exists and no later one; a
\* parameter, declaration or value on the line of the caret gives no
\* location
C19_DefinitionOrderAmended ==
  query.state = "defined" /\ query.result.done =>
    /\ InSpan => query.result = Found(IncUri, 0, 0, 1)
    /\ ~InSpan /\ OnDeclaration => query.result.kind = "references"
    /\ ~InSpan /\ ~OnDeclaration /\ NamesCallable =>
         query.result \in Entries(QuerySymbols(query.lines).callables, StringIdentifier)
    /\ ~InSpan /\ ~OnDeclaration /\ ~NamesCallable =>
         IF CaretIdentifier.identifier = <<>> THEN query.result = NoLocation
         ELSE IF CaretIdentifier.isCallable
         THEN query.result \in
                Entries(QuerySymbols(query.lines).callables, CaretIdentifier.identifier)
                  \cup {NoLocation}
              /\ (query.result = NoLocation =>
                    Entries(QuerySymbols(query.lines).callables, CaretIdentifier.identifier) = {})
         ELSE IF ParameterRange # None THEN query.result = Elsewhere(ParameterRange)
         ELSE IF LocalRange # None THEN query.result = Elsewhere(LocalRange)
         ELSE IF Entries(QuerySymbols(query.lines).values, CaretIdentifier.identifier) = {}
         THEN query.result = NoLocation
         ELSE \E e \in Entries(QuerySymbols(query.lines).values, CaretIdentifier.identifier) :
                query.result = IF e.location.start.line = query.position.line THEN NoLocation
                               ELSE e

\* the caret is on the use of the parameter p in the body of ab, and the
\* answer is the parameter in the header of ab
C19_Witness ==
  /\ query.state = "defined"
  /\ query.lines = DefinitionLines
  /\ query.position = Position(6, 4)
  /\ query.result = Found(DocUri, 2, 3, 4)

\* ---------------------------------------------------------------- the cache
\* The handlers together with an edit of a dependency file on disk: the
\* server watches no file, so no handler runs.
EditedText == Text(<<>>, <<Decl("e", FALSE)>>, <<>>)

\* the texts the documents hold while the cache is followed: those with at
\* most one inclusion
CacheTexts == {t \in DocTexts : Len(t.directives) <= 1}

\* x.inc is saved with another text
FileEdited ==
  /\ fs[NodeX].text # EditedText
  /\ fs' = [fs EXCEPT ![NodeX] = File(EditedText)]
  /\ last' = Outcome("disk", Here)
  /\ UNCHANGED <<includePaths, openDocs, docText, documentsData, registry,
                 dependenciesData, timers, query>>

NextCache ==
  \/ \E u \in Docs, text \in CacheTexts : OnDidOpen(u, text)
  \/ \E u \in Docs : OnDidClose(u)
  \/ \E u \in Editable, text \in CacheTexts : OnDidChangeContent(u, text)
  \/ \E u \in Docs : TimerFires(u)
  \/ \E u \in Docs : StaleTimerFires(u)
  \/ \E paths \in PathChoices : OnDidChangeConfiguration(paths)
  \/ FileEdited

SpecCache == Init /\ [][NextCache]_vars

RECURSIVE KeptThrough(_, _, _, _, _, _)
\* the nodes among kept that are registered with cached data after each
\* reparseDocument of a configuration change, from the i-th document on
KeptThrough(all, i, texts, paths, w, kept) ==
  IF i > Len(all) \/ w.thrown \/ ~w.done THEN kept
  ELSE LET After(w1) == KeptThrough(all, i + 1, texts, paths, w1,
                                    kept \cap (DOMAIN w1.dd) \cap (DOMAIN w1.reg))
       IN After(ReparseDocument(all[i], texts[all[i]], paths, all, w))

\* the nodes a step keeps: registered with cached data before it, after it
\* and, when the handler parses several documents, in between. A node that
\* a sweep removes and a later parse of the same handler registers again is
\* another node.
Kept ==
  IF last'.op = "config"
  THEN KeptThrough(openDocs, 1, docText, includePaths', Here,
                   (DOMAIN dependenciesData) \cap Registered)
  ELSE (DOMAIN dependenciesData) \cap (DOMAIN dependenciesData') \cap Registered \cap (DOMAIN registry')

\* the cached data a scan of the file as it is on disk gives a node
Scanned1(n) == Parse(n, fs[n].text, TRUE)

\* C20: a node that stays registered keeps its cached data (callables,
\* values, inclusions and dependency list) through every open, delayed
\* reparse, configuration change and close, also when its file has changed
\* on disk since it was scanned: the file is scanned when the node gets its
\* data (a handler that runs to its end leaves a new node with the symbols
\* of its file as it is then) and not again.
C20_CachedDataIsFrozen ==
  [][/\ \A n \in Kept : dependenciesData'[n] = dependenciesData[n]
     /\ ~last'.thrown =>
          \A n \in (DOMAIN dependenciesData') \ (DOMAIN dependenciesData) :
             /\ dependenciesData'[n].callables = Scanned1(n).callables
             /\ dependenciesData'[n].values = Scanned1(n).values]_vars

\* C20 witness: a reparse has run to its end after x.inc was edited, and the
\* node of x.inc still holds the callables of the text scanned before
C20_Witness ==
  /\ last.op \in {"open", "timer", "config"}
  /\ ~last.thrown
  /\ fs[NodeX].text = EditedText
  /\ NodeX \in DOMAIN dependenciesData
  /\ NodeX \in Registered
  /\ dependenciesData[NodeX].callables # Scanned1(NodeX).callables
  /\ dependenciesData[NodeX].callables # <<>>

\* ---------------------------------------------------------------- one pass
RECURSIVE ResolvedOf(_, _, _, _)
\* the files the directives from the i-th on resolve to, in directive order,
\* the including file itself left out
ResolvedOf(uri, headers, i, paths) ==
  IF i > Len(headers) THEN <<>>
  ELSE LET Rest(resolvedUri) ==
             (IF resolvedUri = None \/ resolvedUri = uri THEN <<>> ELSE <<resolvedUri>>)
               \o ResolvedOf(uri, headers, i + 1, paths)
       IN Rest(ResolveIncludePath(fs, paths, headers[i].filename, LocalTo(headers[i], uri)))

RECURSIVE UnresolvedOf(_, _, _, _)
\* the diagnostics of the directives from the i-th on that resolve to nothing
UnresolvedOf(uri, headers, i, paths) ==
  IF i > Len(headers) THEN <<>>
  ELSE (IF ResolveIncludePath(fs, paths, headers[i].filename, LocalTo(headers[i], uri)) = None
        THEN <<UnresolvedDiagnostic(headers[i])>> ELSE <<>>)
       \o UnresolvedOf(uri, headers, i + 1, paths)

\* the pass over the document u gave each of its directives its outcome
OutcomePerDirective(u, headers, paths, r) ==
  /\ ~Stopped(r.st)
  /\ [i \in 1..Len(r.data.resolvedInclusions) |-> r.data.resolvedInclusions[i].uri]
       = ResolvedOf(u, headers, 1, paths)
  /\ r.data.dependencies = ResolvedOf(u, headers, 1, paths)
  /\ \E k \in 1..Len(r.st.diagnostics) :
       /\ r.st.diagnostics[k].uri = u
       /\ r.st.diagnostics[k].list = UnresolvedOf(u, headers, 1, paths)

\* C21 (as claimed): the pass over a document that is opened gives every
\* inclusion directive exactly one outcome and goes on with the next: a
\* resolved inclusion and a dependency entry, in directive order and index
\* aligned, when the name resolves to another file; a diagnostic, Error or
\* Information, when it resolves to nothing; neither when it resolves to the
\* document itself.
C21_EveryDirectiveHasOutcome ==
  [][last'.op = "open" =>
       LET Opened(u) ==
             OutcomePerDirective(u, Parse(u, docText'[u], FALSE).headerInclusions, includePaths,
                                 ParseFile(u, docText'[u], DocumentData(u), includePaths,
                                           Pass(registry, dependenciesData), FALSE))
       IN Opened(openDocs'[Len(openDocs')])]_vars

\* ---------------------------------------------------------------- declarations
\* Scanner calls on texts of declarations, with the variables of parse()
\* after each line: the enum mode, the brace depth and the recorded enum
\* depth.
Mode(st) ==
  IF ~st.inEnum THEN "NotInEnum" ELSE IF st.enumAwaitBrace THEN "AwaitingBrace" ELSE "InEnum"

\* the variables of parse() after the first k lines of the text
ModeTrace(lines, skipStatic) ==
  [k \in 1..Len(lines) |->
     LET At(st) == [mode |-> Mode(st), depth |-> st.bracketDepth, enumDepth |-> st.enumDepth]
     IN At(ParseLines(StartOfParse(<<>>), SubSeq(lines, 1, k), 0, skipStatic))]

\* enumerations with the brace on the line of the keyword or on a later
\* line, closed on the same line or later, with a block nested in the body,
\* each followed by the global g
EnumModeTexts ==
  {\* `enum Foo` / `{` / `A,` / `B` / `}` / `new g;`
   <<<<"e", "n", "u", "m", " ", "F", "o", "o">>,
     <<"{">>,
     <<"A", ",">>,
     <<"B">>,
     <<"}">>,
     <<"n", "e", "w", " ", "g", ";">>>>,
  \* `enum Foo {` / `A,` / `}` / `new g;`
   <<<<"e", "n", "u", "m", " ", "F", "o", "o", " ", "{">>,
     <<"A", ",">>,
     <<"}">>,
     <<"n", "e", "w", " ", "g", ";">>>>,
  \* `enum Foo { A }` / `new g;`
   <<<<"e", "n", "u", "m", " ", "F", "o", "o", " ", "{", " ", "A", " ", "}">>,
     <<"n", "e", "w", " ", "g", ";">>>>,
  \* `enum Foo` / `new h;` / `{ A }` / `new g;`
   <<<<"e", "n", "u", "m", " ", "F", "o", "o">>,
     <<"n", "e", "w", " ", "h", ";">>,
     <<"{", " ", "A", " ", "}">>,
     <<"n", "e", "w", " ", "g", ";">>>>,
  \* `enum Foo` / `{ A, B }` / `new g;`
   <<<<"e", "n", "u", "m", " ", "F", "o", "o">>,
     <<"{", " ", "A", ",", " ", "B", " ", "}">>,
     <<"n", "e", "w", " ", "g", ";">>>>,
  \* `enum` / `{` / `A` / `}` / `new g;`
   <<<<"e", "n", "u", "m">>,
     <<"{">>,
     <<"A">>,
     <<"}">>,
     <<"n", "e", "w", " ", "g", ";">>>>,
  \* `enum Foo {` / `A,` / `{` / `C,` / `}` / `B` / `}` / `new g;`
   <<<<"e", "n", "u", "m", " ", "F", "o", "o", " ", "{">>,
     <<"A", ",">>,
     <<"{">>,
     <<"C", ",">>,
     <<"}">>,
     <<"B">>,
     <<"}">>,
     <<"n", "e", "w", " ", "g", ";">>>>,
  \* `enum Foo` / `{` / `A,` / `{` / `C,` / `}` / `}` / `new g;`
   <<<<"e", "n", "u", "m", " ", "F", "o", "o">>,
     <<"{">>,
     <<"A", ",">>,
     <<"{">>,
     <<"C", ",">>,
     <<"}">>,
     <<"}">>,
     <<"n", "e", "w", " ", "g", ";">>>>}

MaxSpecifiers == 3

\* the storage specifiers
Storage == {KwStatic, KwPublic, KwConst, KwStock}

SpecifierSeqs == UNION {[1..k -> Storage] : k \in 1..MaxSpecifiers}

RECURSIVE Spelled(_, _)
\* the words from the i-th on, each followed by a space
Spelled(words, i) ==
  IF i > Len(words) THEN <<>> ELSE words[i] \o <<" ">> \o Spelled(words, i + 1)

\* the line that declares v with the specifiers
SpecifierText(seq) == <<Spelled(seq, 1) \o <<"v", ";">>>>

\* declarations with the specifier static, each with the names it declares:
\* callables, single variables, and variables of a list on one line or two
StaticCases ==
  {\* `static ab()`
   <<<<<<"s", "t", "a", "t", "i", "c", " ", "a", "b", "(", ")">>>>,
     {<<"a", "b">>}>>,
  \* `static stock ab(p)`
   <<<<<<"s", "t", "a", "t", "i", "c", " ", "s", "t", "o", "c", "k", " ", "a", "b", "(", "p", ")">>>>,
     {<<"a", "b">>}>>,
  \* `static v;`
   <<<<<<"s", "t", "a", "t", "i", "c", " ", "v", ";">>>>,
     {<<"v">>}>>,
  \* `static const v = 1;`
   <<<<<<"s", "t", "a", "t", "i", "c", " ", "c", "o", "n", "s", "t", " ", "v", " ", "=", " ", "1", ";">>>>,
     {<<"v">>}>>,
  \* `static a, b;`
   <<<<<<"s", "t", "a", "t", "i", "c", " ", "a", ",", " ", "b", ";">>>>,
     {<<"a">>, <<"b">>}>>,
  \* `static a,` / `b;`
   <<<<<<"s", "t", "a", "t", "i", "c", " ", "a", ",">>,
     <<"b", ";">>>>,
     {<<"a">>, <<"b">>}>>,
  \* `static const a = 1, b = 2;`
   <<<<<<"s", "t", "a", "t", "i", "c", " ", "c", "o", "n", "s", "t", " ", "a", " ", "=", " ", "1", ",", " ", "b", " ", "=", " ", "2", ";">>>>,
     {<<"a">>, <<"b">>}>>,
  \* `stock static a, b;`
   <<<<<<"s", "t", "o", "c", "k", " ", "s", "t", "a", "t", "i", "c", " ", "a", ",", " ", "b", ";">>>>,
     {<<"a">>, <<"b">>}>>}

StaticTexts == {c[1] : c \in StaticCases}

\* #define lines, each with the name of its macro, whether it has
\* parameters, and its value when that is a simple constant (none
\* otherwise): constants, textual aliases, a macro without value, macros
\* with parameters
DefineCases ==
  {\* `#define ab 5`
   <<<<<<"#", "d", "e", "f", "i", "n", "e", " ", "a", "b", " ", "5">>>>,
     <<"a", "b">>, FALSE, <<"5">>>>,
  \* `#define ab 0x1F`
   <<<<<<"#", "d", "e", "f", "i", "n", "e", " ", "a", "b", " ", "0", "x", "1", "F">>>>,
     <<"a", "b">>, FALSE, <<"0", "x", "1", "F">>>>,
  \* `#define ab true`
   <<<<<<"#", "d", "e", "f", "i", "n", "e", " ", "a", "b", " ", "t", "r", "u", "e">>>>,
     <<"a", "b">>, FALSE, <<"t", "r", "u", "e">>>>,
  \* `#define ab "cd"`
   <<<<<<"#", "d", "e", "f", "i", "n", "e", " ", "a", "b", " ", "\"", "c", "d", "\"">>>>,
     <<"a", "b">>, FALSE, <<"\"", "c", "d", "\"">>>>,
  \* `#define  ab 12 // c`
   <<<<<<"#", "d", "e", "f", "i", "n", "e", " ", " ", "a", "b", " ", "1", "2", " ", "/", "/", " ", "c">>>>,
     <<"a", "b">>, FALSE, <<"1", "2">>>>,
  \* `#define ab cd`
   <<<<<<"#", "d", "e", "f", "i", "n", "e", " ", "a", "b", " ", "c", "d">>>>,
     <<"a", "b">>, FALSE, None>>,
  \* `#define ab`
   <<<<<<"#", "d", "e", "f", "i", "n", "e", " ", "a", "b">>>>,
     <<"a", "b">>, FALSE, None>>,
  \* `#define ab gh(1)`
   <<<<<<"#", "d", "e", "f", "i", "n", "e", " ", "a", "b", " ", "g", "h", "(", "1", ")">>>>,
     <<"a", "b">>, FALSE, None>>,
  \* `#define ab(p) p`
   <<<<<<"#", "d", "e", "f", "i", "n", "e", " ", "a", "b", "(", "p", ")", " ", "p">>>>,
     <<"a", "b">>, TRUE, None>>,
  \* `#define ab(p, q) (p + q)`
   <<<<<<"#", "d", "e", "f", "i", "n", "e", " ", "a", "b", "(", "p", ",", " ", "q", ")", " ", "(", "p", " ", "+", " ", "q", ")">>>>,
     <<"a", "b">>, TRUE, None>>,
  \* `#define ab(p) 5`
   <<<<<<"#", "d", "e", "f", "i", "n", "e", " ", "a", "b", "(", "p", ")", " ", "5">>>>,
     <<"a", "b">>, TRUE, None>>}

DefineTexts == {c[1] : c \in DefineCases}

\* a block comment, a declaration of each kind (variable, callable, macro,
\* list, enumeration), and a second declaration on the last line
CommentedTexts ==
  {\* `/* d */` / `new a;` / `new b;`
   <<<<"/", "*", " ", "d", " ", "*", "/">>,
     <<"n", "e", "w", " ", "a", ";">>,
     <<"n", "e", "w", " ", "b", ";">>>>,
  \* `/* d */` / `ab()` / `new b;`
   <<<<"/", "*", " ", "d", " ", "*", "/">>,
     <<"a", "b", "(", ")">>,
     <<"n", "e", "w", " ", "b", ";">>>>,
  \* `/* d */` / `#define ab(p) p` / `new b;`
   <<<<"/", "*", " ", "d", " ", "*", "/">>,
     <<"#", "d", "e", "f", "i", "n", "e", " ", "a", "b", "(", "p", ")", " ", "p">>,
     <<"n", "e", "w", " ", "b", ";">>>>,
  \* `/* d */` / `new a, c;` / `new b;`
   <<<<"/", "*", " ", "d", " ", "*", "/">>,
     <<"n", "e", "w", " ", "a", ",", " ", "c", ";">>,
     <<"n", "e", "w", " ", "b", ";">>>>,
  \* `/* d */` / `enum Foo { A }` / `new b;`
   <<<<"/", "*", " ", "d", " ", "*", "/">>,
     <<"e", "n", "u", "m", " ", "F", "o", "o", " ", "{", " ", "A", " ", "}">>,
     <<"n", "e", "w", " ", "b", ";">>>>,
  \* `/* d */` / `const a = 1;` / `ab()`
   <<<<"/", "*", " ", "d", " ", "*", "/">>,
     <<"c", "o", "n", "s", "t", " ", "a", " ", "=", " ", "1", ";">>,
     <<"a", "b", "(", ")">>>>,
  \* `/*` / `d` / `*/` / `new a;` / `new b;`
   <<<<"/", "*">>,
     <<"d">>,
     <<"*", "/">>,
     <<"n", "e", "w", " ", "a", ";">>,
     <<"n", "e", "w", " ", "b", ";">>>>}

DeclTextsOf ==
  EnumModeTexts \cup {SpecifierText(seq) : seq \in SpecifierSeqs} \cup StaticTexts
    \cup DefineTexts \cup CommentedTexts

Decls ==
  [state : {"asked"}, text : DeclTextsOf, skipStatic : BOOLEAN, result : {None}, trace : {None}]

InitDecl == ServerAtRest /\ query \in Decls

\* Parser.parse on the text, by a process whose buffer is still empty
ScanDecl ==
  /\ query.state = "asked"
  /\ query' = [query EXCEPT !.state = "scanned",
                 !.result = ParseContent(query.text, query.skipStatic, <<>>),
                 !.trace = ModeTrace(query.text, query.skipStatic)]
  /\ UNCHANGED <<fs, includePaths, openDocs, docText, documentsData,
                 registry, dependenciesData, timers, last>>

NextDecl == ScanDecl

SpecDecl == InitDecl /\ [][NextDecl]_vars

\* the variables of parse() before line k (lines count from 1 here)
Before(k) ==
  IF k = 1 THEN [mode |-> "NotInEnum", depth |-> 0, enumDepth |-> 0] ELSE query.trace[k - 1]

Has(line, c) == IndexOf(line, <<c>>) >= 0

\* the line starts with the keyword enum
IsEnumLine(line) ==
  Substring(line, 0, 4) = KwEnum /\ (Len(line) = 4 \/ ~IsWord(CharAt(line, 4)))

\* the deepest brace depth on line k
Peak(k) == Before(k).depth + Cardinality({i \in 1..Len(query.text[k]) : query.text[k][i] = "{"})

\* the mode after line k is the one the claimed machine gives
EnumStep(k, b, a, line) ==
  /\ b.mode = "NotInEnum" =>
       a.mode = IF b.depth # 0 \/ ~IsEnumLine(line) THEN "NotInEnum"
                ELSE IF ~Has(line, "{") THEN "AwaitingBrace"
                ELSE IF Has(line, "}") THEN "NotInEnum" ELSE "InEnum"
  /\ b.mode = "AwaitingBrace" =>
       a.mode = IF ~Has(line, "{") THEN "AwaitingBrace"
                ELSE IF a.depth < b.enumDepth THEN "NotInEnum" ELSE "InEnum"
  /\ b.mode = "InEnum" =>
       a.mode = IF a.depth < b.enumDepth THEN "NotInEnum" ELSE "InEnum"

\* C22 (as claimed): the enum mode follows NotInEnum -> AwaitingBrace ->
\* InEnum -> NotInEnum line by line: an enum line without brace awaits the
\* brace, the next line with an opening brace enters the enumeration, the
\* first line after which the depth is below the recorded enum depth leaves
\* it, an enum line with both braces ends outside; only lines at the
\* recorded enum depth contribute members; the global declared after the
\* closing brace is recognised
C22_EnumMode ==
  query.state = "scanned" /\ query.text \in EnumModeTexts =>
    /\ \A k \in 1..Len(query.text) : EnumStep(k, Before(k), query.trace[k], query.text[k])
    /\ \A i \in 1..Len(query.result.values) :
         query.result.values[i].isEnumMember =>
           \/ Before(query.result.values[i].line + 1).mode = "NotInEnum"
           \/ Peak(query.result.values[i].line + 1) = Before(query.result.values[i].line + 1).enumDepth
    /\ \E i \in 1..Len(query.result.values) : query.result.values[i].identifier = <<"g">>
\* the number of places of the sequence that hold the word
Times(seq, word) == Cardinality({i \in 1..Len(seq) : seq[i] = word})

\* an allowed sequence of specifiers: at most one of static and public, no
\* specifier twice, none after const
AllowedSpecifiers(seq) ==
  /\ Times(seq, KwStatic) + Times(seq, KwPublic) <= 1
  /\ \A w \in Storage : Times(seq, w) <= 1
  /\ \A i \in 1..Len(seq) : seq[i] = KwConst => i = Len(seq)

\* C23 (as claimed): a line without parenthesis that starts with storage
\* specifiers gets the diagnostic 'Invalid combination of class specifiers'
\* exactly when the sequence is not allowed, and then yields no value
C23_InvalidSpecifiers ==
  query.state = "scanned" =>
    \A seq \in SpecifierSeqs :
      query.text = SpecifierText(seq) =>
        /\ AllowedSpecifiers(seq) <=> query.result.diagnostics = <<>>
        /\ ~AllowedSpecifiers(seq) =>
             /\ Len(query.result.diagnostics) = 1
             /\ query.result.diagnostics[1].message = InvalidSpecifiers
             /\ query.result.values = <<>>
\* the identifiers of the symbols of a result
Identifiers(result) ==
  {result.values[i].identifier : i \in 1..Len(result.values)}
    \cup {result.callables[i].identifier : i \in 1..Len(result.callables)}

\* C24 (as claimed): with skipStatic set no declaration with the specifier
\* static is in the result, be it a callable, a single variable or a
\* variable of a declaration list on one line or on several; with the flag
\* clear the declared names are in the result
C24_StaticSuppressed ==
  query.state = "scanned" =>
    \A c \in StaticCases :
      query.text = c[1] =>
        Identifiers(query.result) = IF query.skipStatic THEN {} ELSE c[2]
\* the values of the result with the identifier
ValuesNamed(result, name) ==
  SelectSeq(result.values, LAMBDA v : v.identifier = name)

\* the callables of the result with the identifier
CallablesNamed(result, name) ==
  SelectSeq(result.callables, LAMBDA c : c.identifier = name)

\* C25 (as claimed): a #define line yields exactly one callable for the
\* name of its macro, and a value in addition only when the macro has no
\* parameters and its value is a simple constant
C25_DefineValueOnlyForConstants ==
  query.state = "scanned" =>
    \A c \in DefineCases :
      query.text = c[1] =>
        /\ Len(query.result.callables) = 1
        /\ Len(CallablesNamed(query.result, c[2])) = 1
        /\ Len(query.result.values) = IF ~c[3] /\ c[4] # None THEN 1 ELSE 0

\* C25 (amended): a #define line yields exactly one callable for the name
\* of its macro, with the parameters of the macro, and one value in
\* addition exactly when the macro has no parameters; the value carries the
\* macro's value when that is a simple constant and no value otherwise
C25_DefineValueWithoutParameters ==
  query.state = "scanned" =>
    \A c \in DefineCases :
      query.text = c[1] =>
        /\ Len(query.result.callables) = 1
        /\ Len(CallablesNamed(query.result, c[2])) = 1
        /\ c[3] <=> query.result.callables[1].parameters # <<>>
        /\ Len(query.result.values) = IF c[3] THEN 0 ELSE 1
        /\ ~c[3] =>
             /\ Len(ValuesNamed(query.result, c[2])) = 1
             /\ query.result.values[1].assignedValue = c[4]

\* C25 witness: the alias `#define ab cd` has been scanned and has given
\* the callable ab and the value ab without assigned value
C25_Witness ==
  /\ query.state = "scanned"
  /\ query.text = <<<<"#">> \o KwDefine \o <<" ", "a", "b", " ", "c", "d">>>>
  /\ Len(query.result.callables) = 1
  /\ Len(query.result.values) = 1
  /\ query.result.values[1].identifier = <<"a", "b">>
  /\ query.result.values[1].assignedValue = None
\* the symbols of the result declared on the line (lines count from 0)
SymbolsOn(result, line) ==
  SelectSeq(result.values, LAMBDA v : v.line = line)
    \o SelectSeq(result.callables, LAMBDA c : c.line = line)

\* C26 (as claimed): the block comment is the documentation of the first
\* declaration after it, whatever its kind, and of no later one: the
\* declaration on the last line carries no documentation
C26_DocumentationTakenOnce ==
  query.state = "scanned" /\ query.text \in CommentedTexts =>
    /\ SymbolsOn(query.result, Len(query.text) - 2) # <<>>
    /\ SymbolsOn(query.result, Len(query.text) - 2)[1].documentaton # <<>>
    /\ SymbolsOn(query.result, Len(query.text) - 1) # <<>>
    /\ \A i \in 1..Len(SymbolsOn(query.result, Len(query.text) - 1)) :
         SymbolsOn(query.result, Len(query.text) - 1)[i].documentaton = <<>>

\* ---------------------------------------------------------------- the caret
\* The identifier at the caret on texts of its own: every text of at most
\* MaxTextLen characters and every caret index in it.
MaxTextLen == 4

CaretAlphabet == {"a", "b", "1", " "}

CaretQueries ==
  {[state |-> "asked", content |-> c, index |-> i, result |-> None] :
     c \in LinesUpTo(CaretAlphabet, MaxTextLen) \ {<<>>}, i \in 0..(MaxTextLen - 1)}

InitCaret == ServerAtRest /\ query \in {q \in CaretQueries : q.index < Len(q.content)}

\* findIdentifierAtCursor on the text and the caret index
AtCursor ==
  /\ query.state = "asked"
  /\ query' = [query EXCEPT !.state = "found",
                 !.result = FindIdentifierAtCursor(query.content, query.index)]
  /\ UNCHANGED <<fs, includePaths, openDocs, docText, documentsData,
                 registry, dependenciesData, timers, last>>

NextCaret == AtCursor

SpecCaret == InitCaret /\ [][NextCaret]_vars

\* the identifier characters: letters, digits, _ and @
IsIdentifierChar(c) == c \in Letters \cup Digits \cup {"_", "@"}

\* the maximal run of identifier characters of the content around index i,
\* in source order
RunAround(content, i) ==
  LET first == CHOOSE l \in 0..i :
                 /\ \A k \in l..i : IsIdentifierChar(CharAt(content, k))
                 /\ l = 0 \/ ~IsIdentifierChar(CharAt(content, l - 1))
      last1 == CHOOSE r \in i..(Len(content) - 1) :
                 /\ \A k \in i..r : IsIdentifierChar(CharAt(content, k))
                 /\ r = Len(content) - 1 \/ ~IsIdentifierChar(CharAt(content, r + 1))
  IN Substring(content, first, last1 + 1)

RECURSIVE WithoutLeadingDigits(_)
WithoutLeadingDigits(s) ==
  IF s # <<>> /\ s[1] \in Digits THEN WithoutLeadingDigits(Tail(s)) ELSE s

\* C27 (as claimed): with the caret on an identifier character the result
\* is the maximal run of identifier characters around the caret, in source
\* order, without its leading digits, also when the run starts at offset 0
\* or ends at the last character; the result never starts with a digit
C27_IdentifierAtCursor ==
  query.state = "found" =>
    /\ IsIdentifierChar(CharAt(query.content, query.index)) =>
         query.result.identifier = WithoutLeadingDigits(RunAround(query.content, query.index))
    /\ query.result.identifier # <<>> => query.result.identifier[1] \notin Digits
\* ---------------------------------------------------------- local scope
\* The local-scope search on texts of its own, for every caret line and
\* the identifiers a and b.
\* a declaration of a in a block and one in a block inside it
NestedLines ==
  <<<<"f", "(", ")">>,
    <<"{">>,
    <<"n", "e", "w", " ", "a", ";">>,
    <<"{">>,
    <<"n", "e", "w", " ", "a", ";">>,
    <<"a", ";">>,
    <<"}">>,
    <<"a", ";">>,
    <<"}">>>>

\* a declaration whose initialiser is a call with two arguments
CallLines ==
  <<<<"f", "(", ")">>,
    <<"{">>,
    <<"n", "e", "w", " ", "a", " ", "=", " ", "g", "(", "1", ",", " ", "b", ")", ";">>,
    <<"b", ";">>,
    <<"}">>>>

\* a declaration whose initialiser is a string with a comma
StringLines ==
  <<<<"f", "(", ")">>,
    <<"{">>,
    <<"n", "e", "w", " ", "a", "[", "]", " ", "=", " ", "\"", "c", ",", " ", "b", "\"", ";">>,
    <<"b", ";">>,
    <<"}">>>>

\* a declaration with a comma inside brackets
BracketLines ==
  <<<<"f", "(", ")">>,
    <<"{">>,
    <<"n", "e", "w", " ", "a", "[", "g", "(", "1", ",", " ", "b", ")", "]", ",", " ", "c", ";">>,
    <<"b", ";">>,
    <<"}">>>>

\* a declaration of two names
ListLines ==
  <<<<"f", "(", ")">>,
    <<"{">>,
    <<"n", "e", "w", " ", "a", ",", " ", "b", ";">>,
    <<"b", ";">>,
    <<"}">>>>

\* a declaration in a block that ends before the block of the caret starts
SiblingLines ==
  <<<<"f", "(", ")">>,
    <<"{">>,
    <<"{">>,
    <<"n", "e", "w", " ", "a", ";">>,
    <<"}">>,
    <<"{">>,
    <<"a", ";">>,
    <<"}">>,
    <<"}">>>>

\* declarations at depth 0 only
GlobalLines ==
  <<<<"n", "e", "w", " ", "a", ",", " ", "b", ";">>,
    <<"f", "(", ")">>,
    <<"a", ";">>>>

LocalTexts ==
  {NestedLines, CallLines, StringLines, BracketLines, ListLines, SiblingLines, GlobalLines}

LocalQueries ==
  [state : {"asked"}, lines : LocalTexts, line : 0..MaxQueryLine,
   identifier : {<<"a">>, <<"b">>}, result : {None}]

InitLocal == ServerAtRest /\ query \in LocalQueries

\* findLocalValueRange on the text, the caret line and the identifier
LocalValue ==
  /\ query.state = "asked"
  /\ query' = [query EXCEPT !.state = "searched",
                 !.result = FindLocalValueRange(JoinLines(query.lines),
                                                Position(query.line, 0), query.identifier)]
  /\ UNCHANGED <<fs, includePaths, openDocs, docText, documentsData,
                 registry, dependenciesData, timers, last>>

NextLocal == LocalValue

SpecLocal == InitLocal /\ [][NextLocal]_vars

RECURSIVE TopLevelParts(_, _, _, _, _)
\* the parts of the text between its top-level commas: a comma inside
\* parentheses, brackets, braces or a string ends no part
TopLevelParts(text, i, start, nest, inString) ==
  IF i >= Len(text) THEN {Substring(text, start, i)}
  ELSE IF inString THEN TopLevelParts(text, i + 1, start, nest, CharAt(text, i) # "\"")
  ELSE IF CharAt(text, i) = "\"" THEN TopLevelParts(text, i + 1, start, nest, TRUE)
  ELSE IF CharAt(text, i) \in {"(", "[", "{"} THEN TopLevelParts(text, i + 1, start, nest + 1, FALSE)
  ELSE IF CharAt(text, i) \in {")", "]", "}"} THEN TopLevelParts(text, i + 1, start, Max(0, nest - 1), FALSE)
  ELSE IF CharAt(text, i) = "," /\ nest = 0
  THEN {Substring(text, start, i)} \cup TopLevelParts(text, i + 1, i + 1, 0, FALSE)
  ELSE TopLevelParts(text, i + 1, start, nest, FALSE)

\* the names a line declares: it has a storage specifier, and the name
\* leads one of the top-level parts of what follows the specifiers
Declares(line, identifier) ==
  /\ HasDeclWord(Uncommented(line))
  /\ \E part \in TopLevelParts(StripDeclSpecifiers(Uncommented(line)), 0, 0, 0, FALSE) :
       /\ MatchTaggedName(Trim(part)) # None
       /\ MatchTaggedName(Trim(part)).identifier = identifier

\* the line is in the contiguous block of the target depth around the caret
\* line, and is itself of that depth
InBlock(depths, caret, line, targetDepth) ==
  /\ DepthAt(depths, line) = targetDepth
  /\ \A k \in Min(caret, line)..Max(caret, line) : DepthAt(depths, k) >= targetDepth

\* the hits of the search at a target depth
Hits(lines, depths, caret, identifier, targetDepth) ==
  {l \in 0..(Len(lines) - 1) :
     InBlock(depths, caret, l, targetDepth) /\ Declares(lines[l + 1], identifier)}

\* C28: the local-scope search returns none for a caret line of depth 0;
\* otherwise it returns the first hit over the target depths from the depth
\* of the caret line down to 1, a hit being a line of the target depth in
\* the contiguous block around the caret line that declares the name, the
\* declaration being split on its top-level commas only
C28_LocalScopeSearch ==
  LET Searched(lines, depths, caret) ==
        LET deepest == {t \in 1..DepthAt(depths, caret) :
                          /\ Hits(lines, depths, caret, query.identifier, t) # {}
                          /\ \A u \in (t + 1)..DepthAt(depths, caret) :
                               Hits(lines, depths, caret, query.identifier, u) = {}}
        IN /\ DepthAt(depths, caret) = 0 => query.result = None
           /\ deepest = {} => query.result = None
           /\ \A t \in deepest :
                /\ query.result # None
                /\ query.result.line \in Hits(lines, depths, caret, query.identifier, t)
                /\ \A l \in Hits(lines, depths, caret, query.identifier, t) :
                     query.result.line <= l
  IN query.state = "searched" /\ query.line < Len(query.lines) =>
       Searched(query.lines, ComputeLineDepths(JoinLines(query.lines)), query.line)

\* ---------------------------------------------------------- reference search
\* The cross-file reference search on server states of its own: the record
\* of a.sma with a dependency list, cached dependency lists of x.inc and
\* y.inc, documents open in the editor (a.sma first, x.inc and y.inc open or
\* not), and the files that can be read from storage at the time of the
\* query.
Deps(list) == [dependencies |-> list]

RefGraphs ==
  {[data |-> Deps(<<NodeX>>), dd |-> (NodeX :> Deps(<<NodeY>>)) @@ (NodeY :> Deps(<<>>))],
   [data |-> Deps(<<NodeX, NodeY>>), dd |-> (NodeX :> Deps(<<>>)) @@ (NodeY :> Deps(<<>>))],
   [data |-> Deps(<<NodeX>>), dd |-> (NodeX :> Deps(<<NodeY>>)) @@ (NodeY :> Deps(<<NodeX>>))],
   [data |-> Deps(<<NodeY, NodeX>>), dd |-> (NodeX :> Deps(<<NodeY>>)) @@ (NodeY :> Deps(<<>>))],
   [data |-> Deps(<<NodeX>>), dd |-> (NodeX :> Deps(<<>>))]}

RefOpen == {<<DocA>>, <<DocA, NodeX>>, <<DocA, NodeY>>, <<DocA, NodeX, NodeY>>, <<NodeY, DocA>>}

RefQueries ==
  {[state |-> "asked", graph |-> g, all |-> o, readable |-> r, result |-> None] :
     g \in RefGraphs, o \in RefOpen, r \in SUBSET {NodeX, NodeY}}

InitRefs == ServerAtRest /\ query \in RefQueries

RECURSIVE ScanUris(_, _, _, _)
\* uris.forEach of collectReferencesForIdentifier: the text of an open
\* document is taken from its buffer, another is read from storage, and a
\* URI whose file cannot be read is left out
ScanUris(uris, i, all, readable) ==
  IF i > Len(uris) THEN <<>>
  ELSE IF InSeq(uris[i], all)
  THEN <<[uri |-> uris[i], source |-> "buffer"]>> \o ScanUris(uris, i + 1, all, readable)
  ELSE IF uris[i] \in readable
  THEN <<[uri |-> uris[i], source |-> "storage"]>> \o ScanUris(uris, i + 1, all, readable)
  ELSE ScanUris(uris, i + 1, all, readable)

\* collectReferencesForIdentifier(identifier, data): the texts it scans, in
\* the order of the set uris, the open documents first
CollectReferencesForIdentifier(all, data, dd, readable) ==
  LET Collected(walk) ==
        [done |-> walk.done, scans |-> ScanUris(all \o walk.trace, 1, all, readable)]
  IN Collected(CollectReferenceUris(all, data, dd))

\* a find references request answered for a.sma
CollectReferences ==
  /\ query.state = "asked"
  /\ query' = [query EXCEPT !.state = "collected",
                 !.result = CollectReferencesForIdentifier(query.all, query.graph.data,
                                                           query.graph.dd, query.readable)]
  /\ UNCHANGED <<fs, includePaths, openDocs, docText, documentsData,
                 registry, dependenciesData, timers, last>>

NextRefs == CollectReferences

SpecRefs == InitRefs /\ [][NextRefs]_vars

\* the number of scans of the URI
ScansOf(scans, uri) == Cardinality({k \in 1..Len(scans) : scans[k].uri = uri})

\* C29: the reference search started from a file returns, and scans every
\* file reachable from the file's dependency list exactly once, whether or
\* not a reachable file is open in the editor: from the buffer when the file
\* is open, from storage otherwise, a file that cannot be read being left out
C29_ScansEveryReachableFile ==
  query.state = "collected" =>
    /\ query.result.done
    /\ \A n \in Closure(RangeOf(query.graph.data.dependencies), query.graph.dd) :
         IF InSeq(n, query.all) \/ n \in query.readable
         THEN /\ ScansOf(query.result.scans, n) = 1
              /\ \A k \in 1..Len(query.result.scans) :
                   query.result.scans[k].uri = n =>
                     (query.result.scans[k].source = "buffer") = InSeq(n, query.all)
         ELSE ScansOf(query.result.scans, n) = 0

====
